---- MODULE Spec2Model ----
(***************************************************************************)
(* Model of the idea-getter daily pipeline: the PipelineOrchestrator        *)
(* (runPipeline / runStep / runWithTimeout / cancel), the JobScheduler      *)
(* (start / stop / executePipeline / checkAndRunMissedJob), the job-run     *)
(* records of system_metadata, and the detection / embedding / clustering  *)
(* / scoring / cleanup operations on the complaints, clusters and          *)
(* opportunities tables.                                                    *)
(*                                                                          *)
(* One step of the model is one run of the JavaScript event loop: the code  *)
(* between two awaits that yield to I/O or to a timer is atomic, and the    *)
(* continuation of a resolved promise runs in the same step (microtasks     *)
(* drain before the next timer or I/O callback).                            *)
(***************************************************************************)
EXTENDS Integers, Sequences, FiniteSets, TLC

\* ------------------------------------------------------------------------
\* Bounds of the model
\* ------------------------------------------------------------------------
MaxRuns == 2            \* orchestrators (run ids) that can be created
MaxStageFailures == 1   \* stage functions that may throw, over all runs
MaxCalls == 3           \* calls of start / stop / triggerManually and cron firings
MaxComplaints == 2      \* complaints rows ever inserted
MaxDay == 2             \* days that pass
RetentionDays == 1      \* the data_retention_days setting (days kept by cleanup)
MaxWorkers == 2         \* clustering operations that can be in progress together
MaxPeriodCount == 3     \* complaints of a cluster in one 14-day period
MaxSimilar == 3         \* complaints rows where clusters compete for a complaint
DetectionLimit == 1     \* the limit of processNewComplaints (100 rows in the code)
MaxItems == 3           \* scraped items given to one persistItems call
MaxTexts == 11          \* complaint texts given to one generateClusterSummary call

RunIds == 1..MaxRuns

ComplaintIds == 1..MaxComplaints

WorkerIds == 1..MaxWorkers
NoRun == 0

\* ------------------------------------------------------------------------
\* Pipeline steps (types.ts PipelineStep) in the order runPipeline runs them
\* ------------------------------------------------------------------------
Steps == <<"collection", "detection", "embedding", "clustering", "scoring", "cleanup">>

NumSteps == Len(Steps)

StepSet == {Steps[i] : i \in 1..NumSteps}

StepIndex(s) == CHOOSE i \in 1..NumSteps : Steps[i] = s

CriticalMessage == "Critical: Database connection lost"

ThrownMessage == "stage threw"

Triggers == {"cron", "manual", "startup"}

\* DEFAULT_CLUSTERING_CONFIG.similarityThreshold = 0.75 = 3/4
SimilarityThresholdNum == 3

SimilarityThresholdDen == 4

\* Embedding vectors the provider returns (two dimensions stand for the 1536)
Embeddings == {<<1, 0>>, <<2, 1>>, <<1, 1>>}

\* two of them that are not similar enough to share a cluster (equal ones
\* share one)
DistinctEmbeddings == {<<1, 0>>, <<1, 1>>}

Dimensions == 1..2

NoEmbedding == <<>>

\* the HN category stored in complaints.subreddit (complaint.category)
Categories == {"ask", "show"}

NoCluster == 0

\* complaint texts: one that matches no detection pattern, one that matches a
\* frustration / failure / problem pattern, and one that matches such a
\* pattern and a workaround pattern
Texts == {"plain", "complaint", "workaround"}

\* the error message of a failed embeddings.create call
EmbeddingError == "embedding generation failed"

\* a setting without a row in the settings table (getSetting: undefined)
NoSetting == -1

VARIABLES
    pc,            \* runPipeline of run r: where its async body is suspended
    fnpc,          \* the function given to runWithTimeout: where it is suspended
    dbHealthy,     \* the local dbHealthy of that function
    timer,         \* the setTimeout of runWithTimeout
    aborted,       \* abortController.signal.aborted
    steps,         \* the steps record of the run (shared with result.steps)
    errors,        \* the errors list of the run (shared with result.errors)
    resultStatus,  \* result.status
    jobArgs,       \* the errors argument evaluated for failJobRun
    jobRuns,       \* system_metadata rows, one per run id
    sched,         \* JobScheduler.state and currentOrchestrator
    tpc,           \* each trigger's executePipeline / checkAndRunMissedJob call
    trun,          \* the run a trigger's executePipeline is awaiting
    calls,         \* number of scheduler calls and cron firings so far
    complaints,    \* complaints table: id -> row
    clusters,      \* clusters table: id -> row
    opportunities, \* opportunities table: id -> row
    lastId,        \* the last id given to a complaint, a cluster, an opportunity
    now,           \* the current day
    workers,       \* clusterComplaint calls in progress: where each is suspended
    embedCall,     \* the last processBatch call: its list, outcome and results
    gaveUp,        \* complaints of a processBatch call whose generation failed
    settings,      \* settings table: key -> value
    scoring,       \* the scoreAllClusters call in progress
    scoreCall,     \* the last calculateScore / scoreCluster call and its result
    detectCall,    \* the last processNewComplaints call, and the rows evaluated so far
    genCall        \* the generateEmbeddings call in progress, or the last one

pipeVars == <<pc, fnpc, dbHealthy, timer, aborted, steps, errors, resultStatus, jobArgs, jobRuns>>

schedVars == <<sched, tpc, trun>>

callVars == <<embedCall, gaveUp, settings, scoring, scoreCall, detectCall, genCall>>

stageVars == <<workers, embedCall, gaveUp, settings, scoring, scoreCall, detectCall, genCall>>

dataVars == <<complaints, clusters, opportunities, lastId, now, workers,
              embedCall, gaveUp, settings, scoring, scoreCall, detectCall, genCall>>

vars == <<pc, fnpc, dbHealthy, timer, aborted, steps, errors, resultStatus, jobArgs, jobRuns,
          sched, tpc, trun, calls, complaints, clusters, opportunities, lastId, now,
          workers, embedCall, gaveUp, settings, scoring, scoreCall, detectCall, genCall>>

\* ------------------------------------------------------------------------
\* Initial state: no orchestrator created, scheduler constructed, empty tables
\* ------------------------------------------------------------------------
\* a clusterComplaint call that has not started or has returned
IdleWorker == [pc |-> "idle", c |-> 0, k |-> NoCluster, stats |-> <<>>]

\* no processBatch call yet
NoEmbedCall ==
    [op |-> "none", batch |-> {}, toEmbed |-> {}, ok |-> TRUE,
     results |-> <<>>, retried |-> {}]

\* the ScoringStats counters scoreAllClusters starts with
NoStats == [opportunitiesCreated |-> 0, opportunitiesUpdated |-> 0, clustersBelowThreshold |-> 0]

\* no scoreAllClusters call in progress
IdleScoring ==
    [pc |-> "idle", setting |-> NoSetting, threshold |-> NoSetting, todo |-> <<>>,
     scored |-> {}, stats |-> NoStats, existingOpportunity |-> {}]

\* no scoreCluster call yet
NoScoreCall == [op |-> "none"]

\* no processNewComplaints call yet
NoDetectCall == [rows |-> {}, again |-> {}, evaluated |-> {}]

\* lastError = null
NoError == [name |-> "null", message |-> ""]

\* no generateEmbeddings call yet
NoGenCall ==
    [pc |-> "idle", texts |-> 0, attempt |-> 0, calls |-> 0, delays |-> <<>>,
     failures |-> <<>>, response |-> <<>>, result |-> <<>>, lastError |-> NoError]

PendingSteps == [s \in StepSet |-> [status |-> "pending", error |-> "none"]]

InitSchedulerState ==
    [isRunning |-> FALSE, isPipelineRunning |-> FALSE, totalRuns |-> 0,
     successfulRuns |-> 0, failedRuns |-> 0, currentOrchestrator |-> NoRun]

Init ==
    /\ pc = [r \in RunIds |-> "idle"]
    /\ fnpc = [r \in RunIds |-> "none"]
    /\ dbHealthy = [r \in RunIds |-> "unknown"]
    /\ timer = [r \in RunIds |-> "unset"]
    /\ aborted = [r \in RunIds |-> FALSE]
    /\ steps = [r \in RunIds |-> PendingSteps]
    /\ errors = [r \in RunIds |-> <<>>]
    /\ resultStatus = [r \in RunIds |-> "completed"]
    /\ jobArgs = [r \in RunIds |-> <<>>]
    /\ jobRuns = [r \in RunIds |-> [status |-> "none", errors |-> <<>>]]
    /\ sched = InitSchedulerState
    /\ tpc = [t \in Triggers |-> "idle"]
    /\ trun = [t \in Triggers |-> NoRun]
    /\ calls = 0
    /\ complaints = <<>>
    /\ clusters = <<>>
    /\ opportunities = <<>>
    /\ lastId = [complaint |-> 0, cluster |-> 0, opportunity |-> 0]
    /\ now = 0
    /\ workers = [w \in WorkerIds |-> IdleWorker]
    /\ embedCall = NoEmbedCall
    /\ gaveUp = {}
    /\ settings = [min_score_threshold |-> NoSetting]
    /\ scoring = IdleScoring
    /\ scoreCall = NoScoreCall
    /\ detectCall = NoDetectCall
    /\ genCall = NoGenCall

\* ------------------------------------------------------------------------
\* PipelineOrchestrator
\* ------------------------------------------------------------------------

\* the catch block of runPipeline: "Mark any pending steps as skipped"
MarkPendingSkipped_forgotten(st) == st

MarkPendingSkipped(st) ==
    [s \in StepSet |->
        IF st[s].status = "pending" THEN [st[s] EXCEPT !.status = "skipped"] ELSE st[s]]

\* the status written to the job record for a result status
TerminalJobStatus_alwaysCompleted(rs) == "completed"

TerminalJobStatus(rs) == IF rs = "completed" THEN "completed" ELSE "failed"

\* the step runPipeline runs after step number i (NumSteps + 1: none)
StepAfter_skipsOne(i) == i + 2

StepAfter(i) == i + 1

\* "if (!dbHealthy) throw": whether fn aborts on the health check's answer
HealthCheckAborts_never(healthy) == FALSE

HealthCheckAborts(healthy) == ~healthy

\* whether the catch block of runStep rethrows the error of a step function
\* that settled with ok ("Continue with remaining steps")
RunStepRethrows_onFailure(ok) == ~ok

RunStepRethrows(ok) == FALSE

\* number of step functions that have thrown so far, over all runs
RECURSIVE SumLen(_, _)
SumLen(f, S) ==
    IF S = {} THEN 0
    ELSE LET r == CHOOSE x \in S : TRUE IN Len(f[r]) + SumLen(f, S \ {r})

StageFailures ==
    SumLen([r \in RunIds |-> SelectSeq(errors[r], LAMBDA e : e.message = ThrownMessage)], RunIds)

\* executePipeline after its await of runPipeline: the try, catch and finally
\* blocks that follow the call; outcome is "returned" or "threw"
SchedulerAfterRun(r, outcome) ==
    IF \E t \in Triggers : tpc[t] = "awaitRun" /\ trun[t] = r
    THEN LET t == CHOOSE t \in Triggers : tpc[t] = "awaitRun" /\ trun[t] = r
             ok == outcome = "returned" /\ resultStatus'[r] = "completed"
         IN /\ sched' = [sched EXCEPT
                    !.successfulRuns = IF ok THEN @ + 1 ELSE @,
                    !.failedRuns = IF ok THEN @ ELSE @ + 1,
                    !.isPipelineRunning = FALSE,
                    !.currentOrchestrator = NoRun]
            /\ tpc' = [tpc EXCEPT ![t] = "idle"]
            /\ trun' = [trun EXCEPT ![t] = NoRun]
    ELSE UNCHANGED schedVars

\* runPipeline up to its first await (startJobRun)
BeginRun(r) ==
    /\ pc[r] = "idle"
    /\ pc' = [pc EXCEPT ![r] = "startJobRun"]
    /\ aborted' = [aborted EXCEPT ![r] = FALSE]
    /\ steps' = [steps EXCEPT ![r] = PendingSteps]
    /\ errors' = [errors EXCEPT ![r] = <<>>]
    /\ UNCHANGED <<fnpc, dbHealthy, timer, resultStatus, jobArgs, jobRuns>>

\* runDailyPipeline(): a new orchestrator and one runPipeline call
RunDailyPipeline ==
    /\ \A r \in RunIds : pc[r] = "idle"
    /\ BeginRun(1)
    /\ UNCHANGED schedVars
    /\ UNCHANGED calls
    /\ UNCHANGED dataVars

\* startJobRun resolves: the row is inserted with status 'running', result is
\* initialised, runWithTimeout arms the timer and calls fn, which awaits
\* checkDatabaseHealth.  Or the insert rejects and runPipeline throws.
StartJobRun(r) ==
    /\ UNCHANGED calls
    /\ UNCHANGED dataVars
    /\ pc[r] = "startJobRun"
    /\ \E ok \in BOOLEAN :
        IF ok
        THEN /\ jobRuns' = [jobRuns EXCEPT ![r] = [status |-> "running", errors |-> <<>>]]
             /\ resultStatus' = [resultStatus EXCEPT ![r] = "completed"]
             /\ timer' = [timer EXCEPT ![r] = "armed"]
             /\ fnpc' = [fnpc EXCEPT ![r] = "health"]
             /\ pc' = [pc EXCEPT ![r] = "racing"]
             /\ UNCHANGED schedVars
        ELSE /\ pc' = [pc EXCEPT ![r] = "threw"]
             /\ UNCHANGED <<jobRuns, resultStatus, timer, fnpc>>
             /\ SchedulerAfterRun(r, "threw")
    /\ UNCHANGED <<dbHealthy, aborted, steps, errors, jobArgs>>

\* runStep up to its await of fn(): the step is marked running
StartStep(st, i) == [st EXCEPT ![Steps[i]].status = "running"]

\* checkDatabaseHealth resolves.  true: runStep('collection') starts.
\* false: fn throws; when runPipeline is still awaiting the race, its catch
\* block records the critical error and marks the pending steps skipped.
HealthCheck(r) ==
    /\ UNCHANGED calls
    /\ UNCHANGED dataVars
    /\ fnpc[r] = "health"
    /\ \E healthy \in BOOLEAN :
        /\ dbHealthy' = [dbHealthy EXCEPT ![r] = IF healthy THEN "yes" ELSE "no"]
        /\ IF ~HealthCheckAborts(healthy)
           THEN /\ steps' = [steps EXCEPT ![r] = StartStep(@, 1)]
                /\ fnpc' = [fnpc EXCEPT ![r] = Steps[1]]
                /\ UNCHANGED <<pc, errors, resultStatus, jobArgs>>
           ELSE /\ fnpc' = [fnpc EXCEPT ![r] = "threw"]
                /\ IF pc[r] = "racing"
                   THEN /\ resultStatus' = [resultStatus EXCEPT ![r] = "failed"]
                        /\ errors' = [errors EXCEPT ![r] =
                               Append(@, [step |-> "collection", message |-> CriticalMessage])]
                        /\ steps' = [steps EXCEPT ![r] = MarkPendingSkipped(@)]
                        /\ jobArgs' = [jobArgs EXCEPT ![r] = errors'[r]]
                        /\ pc' = [pc EXCEPT ![r] = "updateJob"]
                   ELSE UNCHANGED <<pc, errors, resultStatus, jobArgs, steps>>
    /\ UNCHANGED <<timer, aborted, jobRuns, schedVars>>

\* runStep after its await of fn(): the try branch (fn resolved) or the catch
\* branch (fn threw), which does not rethrow
SettleStep(st, s, ok) ==
    IF ok
    THEN [st EXCEPT ![s].status = "completed"]
    ELSE [st EXCEPT ![s] = [status |-> "failed", error |-> ThrownMessage]]

\* The stage function of the running step settles; runStep returns and fn goes
\* on to the next runStep, or returns after cleanup.  When fn returns and
\* runPipeline is still awaiting the race, runPipeline finalises the result.
\* An error that escaped runStep would reject fn and reach the last branch of
\* the catch block of runPipeline.
StepSettles(r) ==
    /\ UNCHANGED calls
    /\ UNCHANGED dataVars
    /\ fnpc[r] \in StepSet
    /\ \E ok \in BOOLEAN :
        LET s == fnpc[r]
            n == StepAfter(StepIndex(s))
            settled == SettleStep(steps[r], s, ok)
        IN /\ (~ok) => StageFailures < MaxStageFailures
           /\ errors' = [errors EXCEPT ![r] =
                  IF ok THEN @ ELSE Append(@, [step |-> s, message |-> ThrownMessage])]
           /\ IF RunStepRethrows(ok)
              THEN /\ fnpc' = [fnpc EXCEPT ![r] = "threw"]
                   /\ IF pc[r] = "racing"
                      THEN /\ resultStatus' = [resultStatus EXCEPT ![r] = "failed"]
                           /\ steps' = [steps EXCEPT ![r] = MarkPendingSkipped(settled)]
                           /\ pc' = [pc EXCEPT ![r] = "updateJob"]
                           /\ jobArgs' = [jobArgs EXCEPT ![r] = errors'[r]]
                      ELSE /\ steps' = [steps EXCEPT ![r] = settled]
                           /\ UNCHANGED <<pc, jobArgs, resultStatus>>
              ELSE IF n <= NumSteps
              THEN /\ steps' = [steps EXCEPT ![r] = StartStep(settled, n)]
                   /\ fnpc' = [fnpc EXCEPT ![r] = Steps[n]]
                   /\ UNCHANGED <<pc, jobArgs, resultStatus>>
              ELSE /\ steps' = [steps EXCEPT ![r] = settled]
                   /\ fnpc' = [fnpc EXCEPT ![r] = "done"]
                   /\ UNCHANGED resultStatus
                   /\ IF pc[r] = "racing"
                      THEN /\ pc' = [pc EXCEPT ![r] = "updateJob"]
                           /\ jobArgs' = [jobArgs EXCEPT ![r] = errors'[r]]
                      ELSE UNCHANGED <<pc, jobArgs>>
    /\ UNCHANGED <<dbHealthy, timer, aborted, jobRuns, schedVars>>

\* The timer of runWithTimeout fires while runPipeline awaits the race: the
\* race rejects with 'Pipeline timeout', the catch block sets the status and
\* marks the pending steps skipped.  fn is not stopped.
TimerFires(r) ==
    /\ UNCHANGED calls
    /\ UNCHANGED dataVars
    /\ pc[r] = "racing"
    /\ timer[r] = "armed"
    /\ timer' = [timer EXCEPT ![r] = "fired"]
    /\ resultStatus' = [resultStatus EXCEPT ![r] = "timeout"]
    /\ steps' = [steps EXCEPT ![r] = MarkPendingSkipped(@)]
    /\ jobArgs' = [jobArgs EXCEPT ![r] = errors[r]]
    /\ pc' = [pc EXCEPT ![r] = "updateJob"]
    /\ UNCHANGED <<fnpc, dbHealthy, aborted, errors, jobRuns, schedVars>>

\* completeJobRun / failJobRun resolves and runPipeline returns the result to
\* its caller, or the update rejects and runPipeline throws
UpdateJob(r) ==
    /\ UNCHANGED calls
    /\ UNCHANGED dataVars
    /\ pc[r] = "updateJob"
    /\ \E ok \in BOOLEAN :
        IF ok
        THEN /\ jobRuns' = [jobRuns EXCEPT ![r] =
                    [status |-> TerminalJobStatus(resultStatus[r]),
                     errors |-> IF resultStatus[r] = "completed" THEN @.errors ELSE jobArgs[r]]]
             /\ pc' = [pc EXCEPT ![r] = "returned"]
             /\ UNCHANGED resultStatus
             /\ SchedulerAfterRun(r, "returned")
        ELSE /\ pc' = [pc EXCEPT ![r] = "threw"]
             /\ UNCHANGED <<jobRuns, resultStatus>>
             /\ SchedulerAfterRun(r, "threw")
    /\ UNCHANGED <<fnpc, dbHealthy, timer, aborted, steps, errors, jobArgs>>

\* PipelineOrchestrator.cancel(): aborts the controller, which nothing observes
CancelRun(r) ==
    /\ aborted' = [aborted EXCEPT ![r] = TRUE]

Cancel(r) ==
    /\ pc[r] # "idle"
    /\ ~aborted[r]
    /\ CancelRun(r)
    /\ UNCHANGED <<pc, fnpc, dbHealthy, timer, steps, errors, resultStatus, jobArgs, jobRuns>>
    /\ UNCHANGED schedVars
    /\ UNCHANGED calls
    /\ UNCHANGED dataVars

OrchestratorStep ==
    \E r \in RunIds :
        \/ StartJobRun(r)
        \/ HealthCheck(r)
        \/ StepSettles(r)
        \/ TimerFires(r)
        \/ UpdateJob(r)

NextRun ==
    \/ RunDailyPipeline
    \/ OrchestratorStep
    \/ \E r \in RunIds : Cancel(r)

SpecRun == Init /\ [][NextRun]_vars

\* ------------------------------------------------------------------------
\* JobScheduler
\* ------------------------------------------------------------------------

\* isJobRunning('daily_pipeline'): some row of the job type has status 'running'
isJobRunning == \E r \in RunIds : jobRuns[r].status = "running"

\* getTodaysJobRuns('daily_pipeline'): the model covers one calendar day, so
\* every inserted row was started today
getTodaysJobRuns == {r \in RunIds : jobRuns[r].status # "none"}

\* executePipeline up to its first await: the in-memory duplicate check
EnterExecutePipeline(t) ==
    /\ tpc' = [tpc EXCEPT ![t] = IF sched.isPipelineRunning THEN "idle" ELSE "dbcheck"]
    /\ UNCHANGED <<sched, trun>>
    /\ UNCHANGED pipeVars

\* JobScheduler.start(): schedules the cron job and starts the missed-run check
Start ==
    /\ calls < MaxCalls
    /\ calls' = calls + 1
    /\ UNCHANGED dataVars
    /\ ~sched.isRunning
    /\ tpc["startup"] = "idle"
    /\ sched' = [sched EXCEPT !.isRunning = TRUE]
    /\ tpc' = [tpc EXCEPT !["startup"] = "missed1"]
    /\ UNCHANGED trun
    /\ UNCHANGED pipeVars

\* JobScheduler.stop(): stops the cron job, cancels the current orchestrator
\* and clears the state flags
Stop ==
    /\ calls < MaxCalls
    /\ calls' = calls + 1
    /\ UNCHANGED dataVars
    /\ sched' = [sched EXCEPT !.isRunning = FALSE, !.isPipelineRunning = FALSE,
                              !.currentOrchestrator = NoRun]
    /\ IF sched.currentOrchestrator # NoRun
       THEN CancelRun(sched.currentOrchestrator)
       ELSE UNCHANGED aborted
    /\ UNCHANGED <<pc, fnpc, dbHealthy, timer, steps, errors, resultStatus, jobArgs, jobRuns>>
    /\ UNCHANGED <<tpc, trun>>

\* the cron callback scheduled by start()
CronFires ==
    /\ calls < MaxCalls
    /\ calls' = calls + 1
    /\ UNCHANGED dataVars
    /\ sched.isRunning
    /\ tpc["cron"] = "idle"
    /\ EnterExecutePipeline("cron")

\* JobScheduler.triggerManually()
TriggerManually ==
    /\ calls < MaxCalls
    /\ calls' = calls + 1
    /\ UNCHANGED dataVars
    /\ tpc["manual"] = "idle"
    /\ EnterExecutePipeline("manual")

\* checkAndRunMissedJob after its await of isJobRunning
MissedRunCheckRunning ==
    /\ UNCHANGED calls
    /\ UNCHANGED dataVars
    /\ tpc["startup"] = "missed1"
    /\ tpc' = [tpc EXCEPT !["startup"] = IF isJobRunning THEN "idle" ELSE "missed2"]
    /\ UNCHANGED <<sched, trun>>
    /\ UNCHANGED pipeVars

\* checkAndRunMissedJob after its await of getTodaysJobRuns
MissedRunCheckToday ==
    /\ UNCHANGED calls
    /\ UNCHANGED dataVars
    /\ tpc["startup"] = "missed2"
    /\ LET completedToday == \E r \in getTodaysJobRuns : jobRuns[r].status = "completed"
           runningToday == \E r \in getTodaysJobRuns : jobRuns[r].status = "running"
       IN IF completedToday \/ runningToday
          THEN /\ tpc' = [tpc EXCEPT !["startup"] = "idle"]
               /\ UNCHANGED <<sched, trun>>
               /\ UNCHANGED pipeVars
          ELSE EnterExecutePipeline("startup")

\* executePipeline after its await of isJobRunning: skip, or set the flag,
\* create the orchestrator and call runPipeline
ExecutePipeline(t) ==
    /\ UNCHANGED calls
    /\ UNCHANGED dataVars
    /\ tpc[t] = "dbcheck"
    /\ IF isJobRunning
       THEN /\ tpc' = [tpc EXCEPT ![t] = "idle"]
            /\ UNCHANGED <<sched, trun>>
            /\ UNCHANGED pipeVars
       ELSE /\ \E r \in RunIds : pc[r] = "idle"
            /\ LET r == CHOOSE r \in RunIds : pc[r] = "idle" /\ \A q \in RunIds : pc[q] = "idle" => r <= q
               IN /\ sched' = [sched EXCEPT !.isPipelineRunning = TRUE,
                                            !.totalRuns = @ + 1,
                                            !.currentOrchestrator = r]
                  /\ BeginRun(r)
                  /\ tpc' = [tpc EXCEPT ![t] = "awaitRun"]
                  /\ trun' = [trun EXCEPT ![t] = r]

SchedulerStep ==
    \/ Start
    \/ Stop
    \/ CronFires
    \/ TriggerManually
    \/ MissedRunCheckRunning
    \/ MissedRunCheckToday
    \/ \E t \in Triggers : ExecutePipeline(t)

Next ==
    \/ SchedulerStep
    \/ OrchestratorStep

Spec == Init /\ [][Next]_vars

\* ------------------------------------------------------------------------
\* Complaints and clusters: clustering engine and cleanup service
\* ------------------------------------------------------------------------
systemVars == <<pc, fnpc, dbHealthy, timer, aborted, steps, errors, resultStatus, jobArgs,
                jobRuns, sched, tpc, trun, calls>>

RECURSIVE SumOver(_, _)
SumOver(f, S) ==
    IF S = {} THEN 0
    ELSE LET x == CHOOSE y \in S : TRUE IN f[x] + SumOver(f, S \ {x})

Dot(a, b) == SumOver([i \in Dimensions |-> a[i] * b[i]], Dimensions)

Max(S) == CHOOSE x \in S : \A y \in S : y <= x

Min(S) == CHOOSE x \in S : \A y \in S : x <= y

\* getComplaintsByCluster(clusterId) on a complaints table
getComplaintsByCluster(tbl, k) == {c \in DOMAIN tbl : tbl[c].clusterId = k}

\* getUnclusteredComplaints: flagged, embedded, not yet in a cluster
getUnclusteredComplaints_anyCluster ==
    {c \in DOMAIN complaints :
        /\ complaints[c].isComplaint
        /\ complaints[c].embedding # NoEmbedding}

getUnclusteredComplaints ==
    {c \in DOMAIN complaints :
        /\ complaints[c].isComplaint
        /\ complaints[c].clusterId = NoCluster
        /\ complaints[c].embedding # NoEmbedding}

\* calculateCentroid(embeddings): the sum of the vectors divided by their
\* number.  A vector of fractions is kept as numerators num over one
\* denominator den; embs is a function from list positions to vectors.
calculateCentroid_noDivision(embs) ==
    [num |-> [i \in Dimensions |-> SumOver([e \in DOMAIN embs |-> embs[e][i]], DOMAIN embs)],
     den |-> 1]

calculateCentroid(embs) ==
    [num |-> [i \in Dimensions |-> SumOver([e \in DOMAIN embs |-> embs[e][i]], DOMAIN embs)],
     den |-> Cardinality(DOMAIN embs)]

\* 1 - (centroid_embedding <=> $1) >= $2: the cosine similarity of embedding e
\* and a centroid is at least the threshold.  The cosine does not depend on
\* the denominator of the centroid; a zero vector has no cosine (NaN).
SimilarEnough(e, centroid) ==
    LET d == Dot(e, centroid.num)
        ee == Dot(e, e)
        cc == Dot(centroid.num, centroid.num)
    IN /\ ee > 0 /\ cc > 0
       /\ d >= 0
       /\ SimilarityThresholdDen * SimilarityThresholdDen * d * d
             >= SimilarityThresholdNum * SimilarityThresholdNum * ee * cc

\* ORDER BY centroid_embedding <=> $1: centroid a is at least as close to e as b
AtLeastAsSimilar(e, a, b) ==
    LET da == Dot(e, a.num)
        db == Dot(e, b.num)
    IN da * da * Dot(b.num, b.num) >= db * db * Dot(a.num, a.num)

\* findMostSimilarCluster(embedding, threshold): the clusters the query can
\* return (LIMIT 1 of the rows above the threshold, closest first)
ClosestFirst_lowestId(e, above) == {k \in above : \A j \in above : k <= j}

ClosestFirst(e, above) ==
    {k \in above :
        \A j \in above :
            AtLeastAsSimilar(e, clusters[k].centroidEmbedding, clusters[j].centroidEmbedding)}

findMostSimilarCluster_none(e) == {}

findMostSimilarCluster(e) ==
    ClosestFirst(e, {k \in DOMAIN clusters : SimilarEnough(e, clusters[k].centroidEmbedding)})

\* assignComplaintToCluster(complaintId, clusterId)
assignComplaintToCluster(tbl, c, k) ==
    IF c \in DOMAIN tbl THEN [tbl EXCEPT ![c].clusterId = k] ELSE tbl

\* what messages.create gives generateClusterSummary: an error (or a response
\* without a text block), or a text block with some text
ProviderFailure == "provider failure"

BlankText == "  "

ProblemText == " Export fails. "

SummaryResponses == {ProviderFailure, BlankText, ProblemText}

\* String.prototype.trim on those texts
Trim(text) ==
    IF text = BlankText THEN ""
    ELSE IF text = ProblemText THEN "Export fails."
    ELSE text

\* complaintTexts.slice(0, 10) and .slice(0, 5)
SampleSize == 10
KeywordCount == 5

\* the members of stopWords that occur in the model's texts
StopWords == {"the", "with"}

\* text.toLowerCase().match(/\b[a-z]{3,}\b/g) || [] on the texts of the
\* model: the runs of three or more letters, in lower case
matchWords(text) ==
    IF text = "The login is broken" THEN <<"the", "login", "broken">>
    ELSE IF text = "UI is so-so" THEN <<>>
    ELSE <<text>>

\* the words counted in wordCounts, in the order the loops meet them
RECURSIVE countedWords(_)
countedWords(complaintTexts) ==
    IF complaintTexts = <<>> THEN <<>>
    ELSE LET notStopWord(word) == word \notin StopWords
         IN SelectSeq(matchWords(Head(complaintTexts)), notStopWord)
                \o countedWords(Tail(complaintTexts))

\* topKeywords.join(', ')
RECURSIVE Join(_)
Join(words) ==
    IF Len(words) = 0 THEN ""
    ELSE IF Len(words) = 1 THEN words[1]
    ELSE words[1] \o ", " \o Join(Tail(words))

\* generateFallbackSummary(complaintTexts): the entries of wordCounts are in
\* order of first occurrence and the sort by count, descending, is stable
generateFallbackSummary(complaintTexts) ==
    LET words == countedWords(complaintTexts)
        keys == {words[i] : i \in DOMAIN words}
        count(w) == Cardinality({i \in DOMAIN words : words[i] = w})
        first(w) == Min({i \in DOMAIN words : words[i] = w})
        before(w) == {u \in keys : \/ count(u) > count(w)
                                    \/ (count(u) = count(w) /\ first(u) < first(w))}
        topKeywords == [r \in 1..Min({KeywordCount, Cardinality(keys)}) |->
                           CHOOSE w \in keys : Cardinality(before(w)) = r - 1]
    IN IF Len(topKeywords) = 0
           THEN "Multiple users report issues with this functionality."
           ELSE "Multiple users report issues with " \o Join(topKeywords) \o "."

\* generateClusterSummary(complaintTexts) when the provider answers response
generateClusterSummary(complaintTexts, response) ==
    IF response = ProviderFailure
        THEN generateFallbackSummary(complaintTexts)
        ELSE Trim(response)

\* a call of generateClusterSummary, with the sample it sends to the provider
generateClusterSummaryCall ==
    /\ scoreCall = NoScoreCall
    /\ \E n \in 1..MaxTexts :
       \E complaintTexts \in [1..n -> {"The login is broken", "UI is so-so"}],
          response \in SummaryResponses :
          scoreCall' = [op |-> "generateClusterSummary",
                        complaintTexts |-> complaintTexts,
                        sampleTexts |-> SubSeq(complaintTexts, 1, Min({SampleSize, n})),
                        response |-> response,
                        summary |-> generateClusterSummary(complaintTexts, response)]
    /\ UNCHANGED <<pipeVars, schedVars, calls, complaints, clusters, opportunities, lastId,
                   now, workers, embedCall, gaveUp, settings, scoring, detectCall, genCall>>

NextFallback == generateClusterSummaryCall

SpecFallback == Init /\ [][NextFallback]_vars

\* createClusterForComplaint: the row given to insertCluster
NewClusterRow(complaint, summary) ==
    [summary |-> summary,
     firstSeen |-> complaint.createdAt,
     lastSeen |-> complaint.createdAt,
     complaintCount |-> 1,
     platformDistribution |-> [g \in Categories |-> IF g = complaint.category THEN 1 ELSE 0],
     centroidEmbedding |-> [num |-> complaint.embedding, den |-> 1]]

\* updateClusterAfterAssignment(clusterId, newComplaint) on complaints table
\* tbl (read after the assignment): the row written by updateClusterStats
UpdatedClusterRow(row, tbl, k, c, newComplaint) ==
    LET members == getComplaintsByCluster(tbl, k)
        embedded == {m \in members : tbl[m].embedding # NoEmbedding}
        found == c \in members
        \* list positions: member ids, and 0 for the pushed new complaint
        embs == [m \in embedded \cup (IF found THEN {} ELSE {0}) |->
                    IF m = 0 THEN newComplaint.embedding ELSE tbl[m].embedding]
        extra(g) == IF ~found /\ newComplaint.category = g THEN 1 ELSE 0
        allDates == {tbl[m].createdAt : m \in members}
                        \cup (IF found THEN {} ELSE {newComplaint.createdAt})
    IN [row EXCEPT
          !.complaintCount = Cardinality(members),
          !.lastSeen = Max(allDates),
          !.platformDistribution =
              [g \in Categories |-> Cardinality({m \in members : tbl[m].category = g}) + extra(g)],
          !.centroidEmbedding = calculateCentroid(embs)]

\* DEFAULT_DETECTION_PATTERNS: the number of patterns of each category
PatternCounts == [frustration |-> 11, failure |-> 12, problem |-> 14]

\* what the three loops of detectComplaint can leave in matchedPatterns, by
\* length: each pattern of a category pushes at most one match
MatchedPatterns == [frustration : 0..PatternCounts.frustration,
                    failure : 0..PatternCounts.failure,
                    problem : 0..PatternCounts.problem]

\* the matches of the three complaint texts of the model
matchPatterns(text) ==
    [g \in DOMAIN PatternCounts |->
        IF text = "plain" THEN 0
        ELSE IF g = "failure" THEN 1
        ELSE IF g = "frustration" /\ text = "workaround" THEN 1
        ELSE 0]

\* const isComplaint = totalMatches > 0
IsComplaint_twoMatches(totalMatches) == totalMatches > 1
IsComplaint(totalMatches) == totalMatches > 0

\* Math.min(100, totalMatches * 15 + categoriesHit * 20)
Confidence_uncapped(totalMatches, categoriesHit) == totalMatches * 15 + categoriesHit * 20
Confidence(totalMatches, categoriesHit) ==
    Min({100, totalMatches * 15 + categoriesHit * 20})

\* detectComplaint after its three loops
detectMatched(matchedPatterns) ==
    LET totalMatches == matchedPatterns.frustration + matchedPatterns.failure
                            + matchedPatterns.problem
        categoriesHit == Cardinality({g \in DOMAIN PatternCounts : matchedPatterns[g] > 0})
    IN [isComplaint |-> IsComplaint(totalMatches),
        matchedPatterns |-> matchedPatterns,
        confidence |-> Confidence(totalMatches, categoriesHit)]

\* detectComplaint(text)
detectComplaint(text) == detectMatched(matchPatterns(text))

\* a call of detectComplaint on a text, given by what its patterns match
detectComplaintCall ==
    /\ scoreCall = NoScoreCall
    /\ \E matchedPatterns \in MatchedPatterns :
          scoreCall' = [op |-> "detectComplaint", result |-> detectMatched(matchedPatterns)]
    /\ UNCHANGED <<pipeVars, schedVars, calls, complaints, clusters, opportunities, lastId,
                   now, workers, embedCall, gaveUp, settings, scoring, detectCall, genCall>>

NextDetect == detectComplaintCall

SpecDetect == Init /\ [][NextDetect]_vars

\* A scraped row that detection flagged as a complaint receives its embedding
\* (the successful branch of processBatch); the row was created on a day up
\* to today.  Its vector, category and text are drawn from the given sets;
\* maxRows rows are inserted at most.
EmbedNewComplaintFrom(maxRows, vectors, categories, texts) ==
    /\ lastId.complaint < maxRows
    /\ \E e \in vectors, g \in categories, d \in 0..now,
          t \in {x \in texts : detectComplaint(x).isComplaint} :
        LET c == lastId.complaint + 1
        IN /\ complaints' = [x \in DOMAIN complaints \cup {c} |->
                  IF x = c
                  THEN [embedding |-> e, isComplaint |-> TRUE, createdAt |-> d,
                        category |-> g, clusterId |-> NoCluster, text |-> t]
                  ELSE complaints[x]]
           /\ lastId' = [lastId EXCEPT !.complaint = c]
    /\ UNCHANGED <<clusters, opportunities, now>>
    /\ UNCHANGED stageVars
    /\ UNCHANGED systemVars

EmbedNewComplaint == EmbedNewComplaintFrom(MaxComplaints, Embeddings, Categories, Texts)

\* clusterComplaint(complaint) for one complaint of the batch that
\* processUnclustered fetched: assignment to the most similar cluster and
\* update of its statistics, or creation of a new cluster whose summary the
\* provider answers with one of responses
clusterComplaintRows(responses, c) ==
    LET complaint == complaints[c]
        similar == findMostSimilarCluster(complaint.embedding)
    IN IF similar # {}
       THEN \E k \in similar :
               LET tbl == assignComplaintToCluster(complaints, c, k)
               IN /\ complaints' = tbl
                  /\ clusters' = [clusters EXCEPT
                         ![k] = UpdatedClusterRow(@, tbl, k, c, complaint)]
                  /\ UNCHANGED lastId
       ELSE \E response \in responses :
            LET k == lastId.cluster + 1
                summary == generateClusterSummary(<<complaint.text>>, response)
            IN /\ clusters' = [x \in DOMAIN clusters \cup {k} |->
                      IF x = k THEN NewClusterRow(complaint, summary) ELSE clusters[x]]
               /\ complaints' = assignComplaintToCluster(complaints, c, k)
               /\ lastId' = [lastId EXCEPT !.cluster = k]

clusterComplaintWith(responses, c) ==
    /\ c \in getUnclusteredComplaints
    /\ clusterComplaintRows(responses, c)
    /\ UNCHANGED <<opportunities, now>>
    /\ UNCHANGED stageVars
    /\ UNCHANGED systemVars

\* clusterComplaint where the provider answers with a problem description
clusterComplaint(c) == clusterComplaintWith({ProblemText}, c)

\* processUnclustered up to its loop: the ClusteringStats it starts with and
\* the rows getUnclusteredComplaints returns, in the order the database
\* gives them
processUnclustered ==
    /\ scoreCall.op = "processUnclustered" => scoreCall.done = Len(scoreCall.unclustered)
    /\ LET n == Cardinality(getUnclusteredComplaints)
       IN \E unclustered \in [1..n -> getUnclusteredComplaints] :
             /\ \A i, j \in 1..n : unclustered[i] = unclustered[j] => i = j
             /\ scoreCall' = [op |-> "processUnclustered", unclustered |-> unclustered,
                              done |-> 0,
                              stats |-> [totalProcessed |-> 0, assignedToExisting |-> 0,
                                         newClustersCreated |-> 0, summariesGenerated |-> 0,
                                         summaryGenerationFailed |-> 0, errors |-> <<>>]]
    /\ UNCHANGED <<complaints, clusters, opportunities, lastId, now, workers, embedCall,
                   gaveUp, settings, scoring, detectCall, genCall>>
    /\ UNCHANGED systemVars

\* the try block of the loop after clusterComplaint has returned its result
CountResult_newClustersOnly(stats, isNewCluster) ==
    IF isNewCluster
        THEN [stats EXCEPT !.totalProcessed = @ + 1, !.newClustersCreated = @ + 1,
                           !.summariesGenerated = @ + 1]
        ELSE [stats EXCEPT !.assignedToExisting = @ + 1]
CountResult(stats, isNewCluster) ==
    IF isNewCluster
        THEN [stats EXCEPT !.totalProcessed = @ + 1, !.newClustersCreated = @ + 1,
                           !.summariesGenerated = @ + 1]
        ELSE [stats EXCEPT !.totalProcessed = @ + 1, !.assignedToExisting = @ + 1]

\* one pass of the loop in which clusterComplaint returns
ClusterNext ==
    /\ scoreCall.op = "processUnclustered"
    /\ scoreCall.done < Len(scoreCall.unclustered)
    /\ LET c == scoreCall.unclustered[scoreCall.done + 1]
           isNewCluster == findMostSimilarCluster(complaints[c].embedding) = {}
       IN /\ clusterComplaintRows({ProblemText}, c)
          /\ scoreCall' = [scoreCall EXCEPT !.done = @ + 1,
                                            !.stats = CountResult(@, isNewCluster)]
    /\ UNCHANGED <<opportunities, now, workers, embedCall, gaveUp, settings, scoring,
                   detectCall, genCall>>
    /\ UNCHANGED systemVars

\* one pass of the loop in which clusterComplaint throws: a query of
\* findMostSimilarCluster or insertCluster fails (nothing was written), or
\* updateClusterAfterAssignment fails after assignComplaintToCluster
ClusterNextThrows ==
    /\ scoreCall.op = "processUnclustered"
    /\ scoreCall.done < Len(scoreCall.unclustered)
    /\ LET c == scoreCall.unclustered[scoreCall.done + 1]
           similar == findMostSimilarCluster(complaints[c].embedding)
       IN /\ \/ UNCHANGED complaints
             \/ \E k \in similar : complaints' = assignComplaintToCluster(complaints, c, k)
          /\ scoreCall' = [scoreCall EXCEPT
                 !.done = @ + 1,
                 !.stats.errors = Append(@, [complaintId |-> c, message |-> "query failed"])]
    /\ UNCHANGED <<clusters, opportunities, lastId, now, workers, embedCall, gaveUp,
                   settings, scoring, detectCall, genCall>>
    /\ UNCHANGED systemVars

\* The clustering stage as the batch processUnclustered, over rows that got
\* their embedding before or during the batch
NextBatch ==
    \/ EmbedNewComplaintFrom(MaxComplaints, DistinctEmbeddings, {"ask"}, {"complaint"})
    \/ processUnclustered
    \/ ClusterNext
    \/ ClusterNextThrows

SpecBatch == Init /\ [][NextBatch]_vars

\* deleteOldComplaints(olderThan): the rows that remain
deleteOldComplaints(tbl, cutoff) ==
    [c \in {x \in DOMAIN tbl : ~(tbl[x].createdAt < cutoff)} |-> tbl[c]]

\* deleteEmptyClusters(): the rows that remain
deleteEmptyClusters(tbl) ==
    [k \in {x \in DOMAIN tbl : tbl[x].complaintCount # 0} |-> tbl[k]]

\* deleteOrphanedOpportunities(): the rows that remain, given the clusters
\* table cl (the rows of a deleted cluster are also removed by the cascade of
\* opportunities.cluster_id)
deleteOrphanedOpportunities(tbl, cl) ==
    [o \in {x \in DOMAIN tbl : tbl[x].clusterId \in DOMAIN cl} |-> tbl[o]]

\* CleanupService.archiveOldData(): delete old complaints, then clusters whose
\* complaintCount is 0 (complaints.cluster_id is set null on delete), then
\* opportunities of clusters that no longer exist
archiveOldData ==
    LET cutoff == now - RetentionDays
        kept == deleteOldComplaints(complaints, cutoff)
        keptClusters == deleteEmptyClusters(clusters)
    IN /\ clusters' = keptClusters
       /\ complaints' = [c \in DOMAIN kept |->
              IF kept[c].clusterId \in DOMAIN keptClusters \cup {NoCluster}
              THEN kept[c]
              ELSE [kept[c] EXCEPT !.clusterId = NoCluster]]
       /\ opportunities' = deleteOrphanedOpportunities(opportunities, keptClusters)
       /\ UNCHANGED <<lastId, now>>
       /\ UNCHANGED stageVars
       /\ UNCHANGED systemVars

\* a day passes
Tick ==
    /\ now < MaxDay
    /\ now' = now + 1
    /\ UNCHANGED <<complaints, clusters, opportunities, lastId>>
    /\ UNCHANGED stageVars
    /\ UNCHANGED systemVars

\* clustering and cleanup never read the text of a row
NextCluster ==
    \/ EmbedNewComplaintFrom(MaxComplaints, Embeddings, Categories, {"complaint"})
    \/ \E c \in ComplaintIds : clusterComplaint(c)
    \/ archiveOldData
    \/ Tick

SpecCluster == Init /\ [][NextCluster]_vars

\* The clustering stage alone, on complaints of one day and one platform:
\* enough rows for two clusters to exist when a third complaint is clustered
NextSimilar ==
    \/ EmbedNewComplaintFrom(MaxSimilar, Embeddings, {"ask"}, {"complaint"})
    \/ \E c \in 1..MaxSimilar : clusterComplaint(c)

SpecSimilar == Init /\ [][NextSimilar]_vars

\* The clustering stage with every answer of the summary provider
NextSummary ==
    \/ EmbedNewComplaintFrom(MaxComplaints, Embeddings, Categories, {"complaint"})
    \/ \E c \in ComplaintIds : clusterComplaintWith(SummaryResponses, c)
    \/ Tick

SpecSummary == Init /\ [][NextSummary]_vars


\* ------------------------------------------------------------------------
\* Overlapping clustering operations.  Two pipeline runs can be in progress
\* together (two triggers, or a run whose stages go on after its timeout), so
\* clusterComplaint calls of different processUnclustered loops interleave
\* at their awaits.  Each worker is one such call; a step is the code between
\* two database (or summary) awaits.
\* ------------------------------------------------------------------------

\* processUnclustered takes the next complaint of its fetched list
BeginClusterComplaint(w, c) ==
    /\ workers[w].pc = "idle"
    /\ c \in getUnclusteredComplaints
    /\ workers' = [workers EXCEPT ![w] = [IdleWorker EXCEPT !.pc = "find", !.c = c]]
    /\ UNCHANGED <<complaints, clusters, opportunities, lastId, now>>
    /\ UNCHANGED callVars
    /\ UNCHANGED systemVars

\* await findMostSimilarCluster(...): an existing cluster, or none
FindSimilarCluster(w) ==
    /\ workers[w].pc = "find"
    /\ LET similar == findMostSimilarCluster(complaints[workers[w].c].embedding)
       IN IF similar # {}
          THEN \E k \in similar :
                  workers' = [workers EXCEPT ![w].pc = "assign", ![w].k = k]
          ELSE workers' = [workers EXCEPT ![w].pc = "insert"]
    /\ UNCHANGED <<complaints, clusters, opportunities, lastId, now>>
    /\ UNCHANGED callVars
    /\ UNCHANGED systemVars

\* createClusterForComplaint: after the summary, await insertCluster(...)
InsertCluster(w) ==
    /\ workers[w].pc = "insert"
    /\ LET k == lastId.cluster + 1
       IN /\ clusters' = [x \in DOMAIN clusters \cup {k} |->
                 IF x = k
                 THEN NewClusterRow(complaints[workers[w].c],
                                    generateClusterSummary(<<complaints[workers[w].c].text>>,
                                                           ProblemText))
                 ELSE clusters[x]]
          /\ lastId' = [lastId EXCEPT !.cluster = k]
          /\ workers' = [workers EXCEPT ![w].pc = "assignNew", ![w].k = k]
    /\ UNCHANGED <<complaints, opportunities, now>>
    /\ UNCHANGED callVars
    /\ UNCHANGED systemVars

\* await assignComplaintToCluster(complaint.id, cluster.id); a new cluster's
\* call returns after it
AssignToCluster(w) ==
    /\ workers[w].pc \in {"assign", "assignNew"}
    /\ complaints' = assignComplaintToCluster(complaints, workers[w].c, workers[w].k)
    /\ workers' = [workers EXCEPT ![w] =
           IF workers[w].pc = "assignNew" THEN IdleWorker ELSE [@ EXCEPT !.pc = "read"]]
    /\ UNCHANGED <<clusters, opportunities, lastId, now>>
    /\ UNCHANGED callVars
    /\ UNCHANGED systemVars

\* updateClusterAfterAssignment: await getComplaintsByCluster(clusterId) and
\* the statistics computed from the rows it returned
ReadClusterComplaints(w) ==
    /\ workers[w].pc = "read"
    /\ workers[w].k \in DOMAIN clusters
    /\ workers' = [workers EXCEPT
           ![w].pc = "update",
           ![w].stats = UpdatedClusterRow(clusters[workers[w].k], complaints, workers[w].k,
                                          workers[w].c, complaints[workers[w].c])]
    /\ UNCHANGED <<complaints, clusters, opportunities, lastId, now>>
    /\ UNCHANGED callVars
    /\ UNCHANGED systemVars

\* updateClusterStats(id, stats): the four columns of stats overwrite the row
updateClusterStats(row, stats) ==
    [row EXCEPT !.complaintCount = stats.complaintCount,
                !.lastSeen = stats.lastSeen,
                !.platformDistribution = stats.platformDistribution,
                !.centroidEmbedding = stats.centroidEmbedding]

\* updateClusterAfterAssignment: await updateClusterStats(...), then return
WriteClusterStats(w) ==
    /\ workers[w].pc = "update"
    /\ clusters' = [clusters EXCEPT
           ![workers[w].k] = updateClusterStats(@, workers[w].stats)]
    /\ workers' = [workers EXCEPT ![w] = IdleWorker]
    /\ UNCHANGED <<complaints, opportunities, lastId, now>>
    /\ UNCHANGED callVars
    /\ UNCHANGED systemVars

NextOverlap ==
    \/ EmbedNewComplaint
    \/ \E w \in WorkerIds, c \in ComplaintIds : BeginClusterComplaint(w, c)
    \/ \E w \in WorkerIds : FindSimilarCluster(w)
    \/ \E w \in WorkerIds : InsertCluster(w)
    \/ \E w \in WorkerIds : AssignToCluster(w)
    \/ \E w \in WorkerIds : ReadClusterComplaints(w)
    \/ \E w \in WorkerIds : WriteClusterStats(w)

SpecOverlap == Init /\ [][NextOverlap]_vars


\* ------------------------------------------------------------------------
\* Collection, detection and embedding stages
\* ------------------------------------------------------------------------

\* persistItems / insertComplaints: a scraped item becomes a row with the
\* column defaults (is_complaint false, no embedding, no cluster); its
\* category and text are drawn from the given sets (no stage before
\* clustering reads the category, none before scoring tells a workaround)
insertComplaints(categories, texts) ==
    /\ lastId.complaint < MaxComplaints
    /\ \E t \in texts, g \in categories, d \in 0..now :
        LET c == lastId.complaint + 1
        IN /\ complaints' = [x \in DOMAIN complaints \cup {c} |->
                  IF x = c
                  THEN [embedding |-> NoEmbedding, isComplaint |-> FALSE, createdAt |-> d,
                        category |-> g, clusterId |-> NoCluster, text |-> t]
                  ELSE complaints[x]]
           /\ lastId' = [lastId EXCEPT !.complaint = c]
    /\ UNCHANGED <<clusters, opportunities, now>>
    /\ UNCHANGED stageVars
    /\ UNCHANGED systemVars

\* the origin ids of the items the scraper finds
SourceIds == {"hn_story_1", "hn_comment_2", "hn_comment_3"}

\* getComplaintBySource('hackernews', sourceId) on a complaints table
getComplaintBySource(tbl, sourceId) == {c \in DOMAIN tbl : tbl[c].sourceId = sourceId}

\* complaints_source_unique_idx: the insert of a row with this origin id is
\* rejected
ViolatesUnique_never(tbl, sourceId) == FALSE
ViolatesUnique(tbl, sourceId) == \E c \in DOMAIN tbl : tbl[c].sourceId = sourceId

\* insertComplaints(newItems) as one statement: rejected as a whole when one
\* of its rows violates the unique index, against the table or against an
\* earlier row of the statement
BulkInsertFails(tbl, newItems) ==
    \E i \in 1..Len(newItems) :
        \/ ViolatesUnique(tbl, newItems[i].sourceId)
        \/ ViolatesUnique([j \in 1..(i - 1) |-> newItems[j]], newItems[i].sourceId)

\* the rows of newItems from the i-th on, inserted one statement each: a
\* rejected one counts as skipped, the others get the next ids after last
RECURSIVE InsertEach(_, _, _, _, _)
InsertEach(tbl, last, newItems, i, counts) ==
    IF i > Len(newItems) THEN [tbl |-> tbl, last |-> last, counts |-> counts]
    ELSE IF ViolatesUnique(tbl, newItems[i].sourceId)
        THEN InsertEach(tbl, last, newItems, i + 1,
                        [counts EXCEPT !.skipCount = @ + 1])
        ELSE InsertEach([c \in DOMAIN tbl \cup {last + 1} |->
                            IF c = last + 1
                            THEN [embedding |-> NoEmbedding, isComplaint |-> FALSE,
                                  createdAt |-> newItems[i].createdAt,
                                  category |-> newItems[i].category,
                                  clusterId |-> NoCluster, text |-> newItems[i].text,
                                  sourceId |-> newItems[i].sourceId]
                            ELSE tbl[c]],
                        last + 1, newItems, i + 1,
                        [counts EXCEPT !.newCount = @ + 1])

\* HackerNewsScraper.persistItems(items): items whose origin id is in the
\* table are skipped, the others are inserted together, and one by one when
\* that is rejected
persistItems ==
    /\ \E n \in 1..MaxItems : \E ids \in [1..n -> SourceIds] :
        LET items == [i \in 1..n |-> [sourceId |-> ids[i], category |-> "ask",
                                       text |-> "complaint", createdAt |-> now]]
            isNew(item) == getComplaintBySource(complaints, item.sourceId) = {}
            newItems == SelectSeq(items, isNew)
            checked == [newCount |-> 0, skipCount |-> Len(items) - Len(newItems)]
            each == InsertEach(complaints, lastId.complaint, newItems, 1, checked)
            counts == IF BulkInsertFails(complaints, newItems)
                          THEN each.counts
                          ELSE [checked EXCEPT !.newCount = Len(newItems)]
        IN /\ complaints' = each.tbl
           /\ lastId' = [lastId EXCEPT !.complaint = each.last]
           /\ scoreCall' = [op |-> "persistItems", items |-> ids,
                            newCount |-> counts.newCount, skipCount |-> counts.skipCount]
    /\ UNCHANGED <<clusters, opportunities, now, workers, embedCall, gaveUp, settings,
                   scoring, detectCall, genCall>>
    /\ UNCHANGED systemVars

NextPersist == persistItems

SpecPersist == Init /\ [][NextPersist]_vars

\* the rows processNewComplaints selects: embedding IS NULL
unprocessedComplaints == {c \in DOMAIN complaints : complaints[c].embedding = NoEmbedding}

\* the row lists that query can return: it has LIMIT limit and no ORDER BY
SelectUnprocessed(limit) ==
    {rows \in SUBSET unprocessedComplaints :
        Cardinality(rows) = Min({limit, Cardinality(unprocessedComplaints)})}

\* ComplaintDetector.processNewComplaints (the detection stage): every
\* selected row gets is_complaint = detectComplaint(text).isComplaint
processNewComplaints ==
    /\ unprocessedComplaints # {}
    /\ \E rows \in SelectUnprocessed(DetectionLimit) :
        /\ complaints' = [c \in DOMAIN complaints |->
               IF c \in rows
               THEN [complaints[c] EXCEPT !.isComplaint = detectComplaint(complaints[c].text).isComplaint]
               ELSE complaints[c]]
        /\ detectCall' = [rows |-> rows,
                          again |-> rows \cap detectCall.evaluated,
                          evaluated |-> detectCall.evaluated \cup rows]
    /\ UNCHANGED <<clusters, opportunities, lastId, now>>
    /\ UNCHANGED <<workers, embedCall, gaveUp, settings, scoring, scoreCall, genCall>>
    /\ UNCHANGED systemVars

\* the rows processComplaints selects: is_complaint = true AND embedding IS NULL
complaintsToProcess_unflagged ==
    {c \in DOMAIN complaints : complaints[c].embedding = NoEmbedding}

complaintsToProcess ==
    {c \in DOMAIN complaints :
        complaints[c].isComplaint /\ complaints[c].embedding = NoEmbedding}

\* processBatch, catch block: what is written to a row whose embedding could
\* not be generated
MarkFailed_leftPending(row) == row

MarkFailed(row) == [row EXCEPT !.isComplaint = FALSE]

\* processBatch(complaintsList) on table tbl.  batch is the list (the ids of
\* the rows passed, as read from tbl), ok whether generateEmbeddings returned
\* (after at most maxRetries attempts), embs the vectors it returned.
\* Rows that have an embedding are skipped; the others are updated.
textsToEmbed_all(tbl, batch) == batch

textsToEmbed(tbl, batch) == {c \in batch : tbl[c].embedding = NoEmbedding}

\* what generateEmbeddings can hand back for the texts of batch: one of
\* vectors for each text when it returns (ok), nothing when it throws
GeneratedEmbeddings(vectors, tbl, batch, ok) ==
    IF ok THEN [textsToEmbed(tbl, batch) -> vectors] ELSE {<<>>}

processBatchRows(tbl, batch, ok, embs) ==
    [c \in DOMAIN tbl |->
        IF c \in textsToEmbed(tbl, batch)
        THEN IF ok THEN [tbl[c] EXCEPT !.embedding = embs[c]] ELSE MarkFailed(tbl[c])
        ELSE tbl[c]]

\* the EmbeddingResult list processBatch returns, by complaint id
processBatchResults(tbl, batch, ok) ==
    [c \in batch |->
        IF c \in textsToEmbed(tbl, batch) /\ ~ok
        THEN [success |-> FALSE, error |-> EmbeddingError]
        ELSE [success |-> TRUE, error |-> "none"]]

\* one processBatch call made by op on list batch
ProcessBatchCall(op, batch, ok, embs) ==
    /\ complaints' = processBatchRows(complaints, batch, ok, embs)
    /\ embedCall' = [op |-> op, batch |-> batch,
                     toEmbed |-> textsToEmbed(complaints, batch), ok |-> ok,
                     results |-> processBatchResults(complaints, batch, ok),
                     retried |-> textsToEmbed(complaints, batch) \cap gaveUp]
    /\ gaveUp' = IF ok THEN gaveUp ELSE gaveUp \cup textsToEmbed(complaints, batch)
    /\ UNCHANGED <<clusters, opportunities, lastId, now>>
    /\ UNCHANGED <<workers, detectCall, genCall, settings, scoring, scoreCall>>
    /\ UNCHANGED systemVars

\* EmbeddingGenerator.processComplaints (the embedding stage): a processBatch
\* call on a slice of the selected rows (a slice of batchSize = 50 rows can
\* hold every selected row of the model).
processComplaints(vectors) ==
    \E batch \in SUBSET complaintsToProcess, ok \in BOOLEAN :
        \E embs \in GeneratedEmbeddings(vectors, complaints, batch, ok) :
            /\ batch # {}
            /\ ProcessBatchCall("processComplaints", batch, ok, embs)

\* a direct call of the public processBatch with any list of rows
processBatch(vectors) ==
    \E batch \in SUBSET DOMAIN complaints, ok \in BOOLEAN :
        \E embs \in GeneratedEmbeddings(vectors, complaints, batch, ok) :
            /\ \E c \in batch : complaints[c].embedding = NoEmbedding
            /\ \E c \in batch : complaints[c].embedding # NoEmbedding
            /\ ProcessBatchCall("processBatch", batch, ok, embs)

NextEmbed ==
    \/ insertComplaints({"ask"}, {"plain", "complaint"})
    \/ processNewComplaints
    \/ processComplaints(DistinctEmbeddings)
    \/ processBatch(DistinctEmbeddings)

SpecEmbed == Init /\ [][NextEmbed]_vars

\* ------------------------------------------------------------------------
\* EmbeddingGenerator.generateEmbeddings: the retry loop
\* ------------------------------------------------------------------------

\* DEFAULT_EMBEDDING_CONFIG, which every EmbeddingGenerator of the program has
maxRetries == 3
retryBaseDelay == 1000

\* what client.embeddings.create can reject with: Error objects, or a value
\* that is not an Error
Rejections ==
    {[isError |-> TRUE, value |-> "429 rate limit"],
     [isError |-> TRUE, value |-> "connect timeout"],
     [isError |-> FALSE, value |-> "aborted"]}

\* error instanceof Error ? error : new Error(String(error))
AsError(error) == [name |-> "Error", message |-> error.value]

\* retryBaseDelay * Math.pow(2, attempt)
BackoffDelay_constant(attempt) == retryBaseDelay
BackoffDelay(attempt) == retryBaseDelay * 2^attempt

\* the for statement's test, with attempt as the loop left it: the next
\* provider call, or the throw after the loop
NextAttempt(call, attempt) ==
    IF attempt < maxRetries
        THEN [call EXCEPT !.pc = "calling", !.attempt = attempt, !.calls = @ + 1]
        ELSE [call EXCEPT !.pc = "thrown", !.attempt = attempt]

otherThanGenCall ==
    <<pipeVars, schedVars, calls, complaints, clusters, opportunities, lastId, now,
      workers, embedCall, gaveUp, settings, scoring, scoreCall, detectCall>>

\* generateEmbeddings(texts) up to its first await
generateEmbeddings ==
    /\ genCall.pc \in {"idle", "returned", "thrown"}
    /\ \E n \in 1..MaxComplaints :
          genCall' = NextAttempt([NoGenCall EXCEPT !.texts = n], 0)
    /\ UNCHANGED otherThanGenCall

\* client.embeddings.create resolves: return response.data.map((d) => d.embedding)
CreateResolves ==
    /\ genCall.pc = "calling"
    /\ \E vectors \in [1..genCall.texts -> DistinctEmbeddings] :
          LET response == [i \in 1..genCall.texts |->
                              [index |-> i - 1, embedding |-> vectors[i]]]
          IN  genCall' = [genCall EXCEPT
                  !.pc = "returned",
                  !.response = response,
                  !.result = [i \in 1..Len(response) |-> response[i].embedding]]
    /\ UNCHANGED otherThanGenCall

\* client.embeddings.create rejects: the catch block, up to the sleep or, for
\* the last attempt, through the end of the loop
CreateRejects ==
    /\ genCall.pc = "calling"
    /\ \E error \in Rejections :
          LET delay == BackoffDelay(genCall.attempt)
              caught == [genCall EXCEPT !.lastError = AsError(error),
                                        !.failures = Append(@, error)]
          IN  genCall' =
                  IF genCall.attempt < maxRetries - 1
                      THEN [caught EXCEPT !.pc = "sleeping", !.delays = Append(@, delay)]
                      ELSE NextAttempt(caught, genCall.attempt + 1)
    /\ UNCHANGED otherThanGenCall

\* the sleep ends: attempt++ and the loop test
SleepEnds ==
    /\ genCall.pc = "sleeping"
    /\ genCall' = NextAttempt(genCall, genCall.attempt + 1)
    /\ UNCHANGED otherThanGenCall

NextRetry ==
    \/ generateEmbeddings
    \/ CreateResolves
    \/ CreateRejects
    \/ SleepEnds

SpecRetry == Init /\ [][NextRetry]_vars

\* The detection, embedding and clustering stages of successive pipeline
\* runs over scraped rows that detection flags
NextPipeline ==
    \/ insertComplaints({"ask"}, {"complaint"})
    \/ processNewComplaints
    \/ processComplaints(DistinctEmbeddings)
    \/ processBatch(DistinctEmbeddings)
    \/ \E c \in ComplaintIds : clusterComplaint(c)

SpecPipeline == Init /\ [][NextPipeline]_vars

\* The same stages as the pipeline runs call them, over scraped rows of
\* which some match no detection pattern
NextStages ==
    \/ insertComplaints({"ask"}, {"plain", "complaint"})
    \/ processNewComplaints
    \/ processComplaints(DistinctEmbeddings)
    \/ \E c \in ComplaintIds : clusterComplaint(c)

SpecStages == Init /\ [][NextStages]_vars


\* ------------------------------------------------------------------------
\* Scoring engine: the score of a cluster
\* ------------------------------------------------------------------------

\* DEFAULT_SCORING_CONFIG: minScoreThreshold and the weights (0.5 = 1/2)
DefaultMinScoreThreshold == 70

WeightComplaintCount == 2

WeightDaysActive == 1

WeightGrowthNum == 1

WeightGrowthDen == 2

WeightWorkaroundCount == 5

WeightPlatformCount == 3

\* "Cap at 100"
ScoreCap == 100

\* calculateGrowthPercentage: the last 14 days against the 14 days before
RecentWindowDays == 14

PreviousWindowDays == 28

\* factor values calculateScore is applied to
ComplaintCounts == {1, 2, 35, 60}

DaysActiveValues == {0, 1, 40}

WorkaroundCounts == {0, 1, 12}

PlatformCounts == {0, 1, 2}

\* calculateGrowthPercentage from the two period counts, as a fraction
GrowthPercentage_zeroWithoutPrevious(recentCount, previousCount) ==
    IF previousCount = 0
    THEN [num |-> 0, den |-> 1]
    ELSE [num |-> (recentCount - previousCount) * 100, den |-> previousCount]

GrowthPercentage(recentCount, previousCount) ==
    IF previousCount = 0
    THEN [num |-> IF recentCount > 0 THEN 100 ELSE 0, den |-> 1]
    ELSE [num |-> (recentCount - previousCount) * 100, den |-> previousCount]

\* calculateScore: rawScore, the weighted sum of the factors, as a fraction
RawScore(factors) ==
    LET whole == factors.complaintCount * WeightComplaintCount
                    + factors.daysActive * WeightDaysActive
                    + factors.workaroundCount * WeightWorkaroundCount
                    + factors.platformCount * WeightPlatformCount
        g == factors.growthPercentage
    IN [num |-> whole * WeightGrowthDen * g.den + WeightGrowthNum * g.num,
        den |-> WeightGrowthDen * g.den]

\* Math.round of a fraction with a positive denominator: floor(x + 1/2)
Round(q) == (2 * q.num + q.den) \div (2 * q.den)

\* calculateScore(factors) = Math.min(100, Math.round(rawScore))
calculateScore_uncapped(factors) == Round(RawScore(factors))

calculateScore(factors) == Min({ScoreCap, Round(RawScore(factors))})

\* a call of calculateScore on one of the factor combinations
calculateScoreCall ==
    /\ \E cc \in ComplaintCounts, da \in DaysActiveValues, w \in WorkaroundCounts,
          pl \in PlatformCounts, recent \in 0..MaxPeriodCount, previous \in 0..MaxPeriodCount :
          LET factors == [complaintCount |-> cc, daysActive |-> da,
                          growthPercentage |-> GrowthPercentage(recent, previous),
                          workaroundCount |-> w, platformCount |-> pl]
          IN scoreCall' = [op |-> "calculateScore", factors |-> factors,
                           score |-> calculateScore(factors)]
    /\ UNCHANGED <<complaints, clusters, opportunities, lastId, now>>
    /\ UNCHANGED <<workers, detectCall, genCall, embedCall, gaveUp, settings, scoring>>
    /\ UNCHANGED systemVars

NextScore == calculateScoreCall

SpecScore == Init /\ [][NextScore]_vars


\* ------------------------------------------------------------------------
\* Scoring stage: scoreAllClusters, the opportunities table, the settings
\* ------------------------------------------------------------------------

\* values PUT /api/settings stores in min_score_threshold
ThresholdSettings == {55, 60}

\* representativeQuoteId of a cluster without complaints (undefined)
NoQuote == 0

\* WORKAROUND_PATTERNS.some(pattern => pattern.test(text))
hasWorkaround(text) == text = "workaround"

\* countWorkarounds(complaintsList)
countWorkarounds(tbl, members) == Cardinality({m \in members : hasWorkaround(tbl[m].text)})

\* calculateDaysActive(cluster), in days
calculateDaysActive(cluster) == Max({0, cluster.lastSeen - cluster.firstSeen})

\* calculateGrowthPercentage(clusterComplaints) on day today
calculateGrowthPercentage(tbl, members, today) ==
    LET recent == {m \in members : tbl[m].createdAt >= today - RecentWindowDays}
        previous == {m \in members :
                        /\ tbl[m].createdAt >= today - PreviousWindowDays
                        /\ tbl[m].createdAt < today - RecentWindowDays}
    IN GrowthPercentage(Cardinality(recent), Cardinality(previous))

\* ages in days of the complaints calculateGrowthPercentage is applied to:
\* today, and the days on each side of the far edge of the two 14-day windows
AgeValues == {0, 14, 15, 28, 29}

\* a call of calculateGrowthPercentage on a list of up to MaxPeriodCount
\* complaints of those ages
calculateGrowthPercentageCall ==
    /\ \E n \in 0..MaxPeriodCount :
         \E ages \in [1..n -> AgeValues] :
            LET tbl == [m \in 1..n |-> [createdAt |-> now - ages[m]]]
            IN scoreCall' = [op |-> "calculateGrowthPercentage",
                             createdAt |-> [m \in 1..n |-> tbl[m].createdAt],
                             today |-> now,
                             growth |-> calculateGrowthPercentage(tbl, 1..n, now)]
    /\ UNCHANGED <<complaints, clusters, opportunities, lastId, now>>
    /\ UNCHANGED <<workers, detectCall, genCall, embedCall, gaveUp, settings, scoring>>
    /\ UNCHANGED systemVars

NextGrowth == calculateGrowthPercentageCall

SpecGrowth == Init /\ [][NextGrowth]_vars

\* calculatePlatformCount(cluster): the keys of platformDistribution
calculatePlatformCount(cluster) ==
    Cardinality({g \in Categories : cluster.platformDistribution[g] > 0})

\* findRepresentativeQuote(cluster, clusterComplaints): the ids the query
\* can return (the complaint closest to the centroid; the first complaint
\* when none has an embedding; undefined when there is no complaint)
findRepresentativeQuote(cluster, tbl, members) ==
    LET embedded == {m \in members : tbl[m].embedding # NoEmbedding}
    IN IF members = {} THEN {NoQuote}
       ELSE IF embedded = {} THEN members
       ELSE {m \in embedded :
                \A x \in embedded :
                    AtLeastAsSimilar(cluster.centroidEmbedding.num,
                                     [num |-> tbl[m].embedding], [num |-> tbl[x].embedding])}

\* the factors scoreCluster computes from the cluster row it was given and
\* the complaints that reference the cluster now
scoringFactors(cluster, tbl, k, today) ==
    LET members == getComplaintsByCluster(tbl, k)
    IN [complaintCount |-> cluster.complaintCount,
        daysActive |-> calculateDaysActive(cluster),
        growthPercentage |-> calculateGrowthPercentage(tbl, members, today),
        workaroundCount |-> countWorkarounds(tbl, members),
        platformCount |-> calculatePlatformCount(cluster)]

\* scoreCluster: meetsThreshold compares with the engine's configured
\* minimum (this.config.minScoreThreshold; scoreClusters builds the engine
\* with the default configuration)
meetsThreshold(score) == score >= DefaultMinScoreThreshold

\* scoreAllClusters: configuredThreshold ?? this.config.minScoreThreshold
ReadThreshold_defaultOnly(setting) == DefaultMinScoreThreshold

ReadThreshold(setting) == IF setting # NoSetting THEN setting ELSE DefaultMinScoreThreshold

\* the row upsertOpportunity inserts (is_bookmarked defaults to false).
\* The scoring_factors column (the factors the score was computed from) and
\* the created_at / updated_at timestamps are not kept in the model's rows.
NewOpportunityRow(opp) ==
    [clusterId |-> opp.clusterId, score |-> opp.score,
     representativeQuoteId |-> opp.representativeQuoteId, isBookmarked |-> FALSE]

\* onConflictDoUpdate ... set: the columns an existing row gets
ConflictUpdate_replacesRow(row, opp) == NewOpportunityRow(opp)

ConflictUpdate(row, opp) ==
    [row EXCEPT !.score = opp.score,
                !.representativeQuoteId = opp.representativeQuoteId]

\* upsertOpportunity(opportunity): insert with id, or update the row that
\* conflicts on cluster_id
upsertOpportunity_alwaysInserts(tbl, id, opp) ==
    [o \in DOMAIN tbl \cup {id} |-> IF o = id THEN NewOpportunityRow(opp) ELSE tbl[o]]

upsertOpportunity(tbl, id, opp) ==
    LET conflict == {o \in DOMAIN tbl : tbl[o].clusterId = opp.clusterId}
    IN IF conflict # {}
       THEN [o \in DOMAIN tbl |->
                IF o \in conflict THEN ConflictUpdate(tbl[o], opp) ELSE tbl[o]]
       ELSE [o \in DOMAIN tbl \cup {id} |->
                IF o = id THEN NewOpportunityRow(opp) ELSE tbl[o]]

\* scoreAllClusters, else branch: a cluster below the threshold is counted
\* and nothing is written
BelowThreshold_deletes(tbl, k) == [o \in {x \in DOMAIN tbl : tbl[x].clusterId # k} |-> tbl[o]]

BelowThreshold(tbl, k) == tbl

\* getActiveClusters(minComplaintCount = 1): the rows, by id
getActiveClusters == [k \in {x \in DOMAIN clusters : clusters[x].complaintCount >= 1} |-> clusters[k]]

\* scoreAllClusters up to its loop: read the threshold setting, fetch the
\* active clusters; without active clusters it returns
scoreAllClusters ==
    /\ scoring.pc = "idle"
    /\ DOMAIN getActiveClusters # {}
    /\ scoring' = [IdleScoring EXCEPT
                      !.pc = "running",
                      !.setting = settings.min_score_threshold,
                      !.threshold = ReadThreshold(settings.min_score_threshold),
                      !.todo = getActiveClusters]
    /\ UNCHANGED <<complaints, clusters, opportunities, lastId, now>>
    /\ UNCHANGED <<workers, detectCall, genCall, embedCall, gaveUp, settings, scoreCall>>
    /\ UNCHANGED systemVars

\* the counters of ScoringStats after one cluster
CountCluster(stats, upsert, existing) ==
    IF ~upsert THEN [stats EXCEPT !.clustersBelowThreshold = @ + 1]
    ELSE IF existing # {} THEN [stats EXCEPT !.opportunitiesUpdated = @ + 1]
    ELSE [stats EXCEPT !.opportunitiesCreated = @ + 1]

\* one iteration of the loop of scoreAllClusters: scoreCluster on the next
\* fetched cluster (ORDER BY last_seen DESC), then the select of the existing
\* opportunity and the upsert when the score reaches the threshold; after
\* the last cluster the call returns.  (No cluster is deleted while a
\* scoring stage runs, so the upsert's foreign key always holds.)
scoreNextCluster ==
    /\ scoring.pc = "running"
    /\ \E k \in DOMAIN scoring.todo :
        /\ \A j \in DOMAIN scoring.todo : scoring.todo[j].lastSeen <= scoring.todo[k].lastSeen
        /\ LET cluster == scoring.todo[k]
               score == calculateScore(scoringFactors(cluster, complaints, k, now))
               existing == {o \in DOMAIN opportunities : opportunities[o].clusterId = k}
               rest == [j \in DOMAIN scoring.todo \ {k} |-> scoring.todo[j]]
               id == lastId.opportunity + 1
               upsert == score >= scoring.threshold
           IN \E q \in findRepresentativeQuote(cluster, complaints, getComplaintsByCluster(complaints, k)) :
                LET opp == [clusterId |-> k, score |-> score, representativeQuoteId |-> q]
                IN /\ scoring' =
                        IF DOMAIN rest = {}
                        THEN IdleScoring
                        ELSE [scoring EXCEPT
                                !.todo = rest,
                                !.scored = @ \cup {k},
                                !.stats = CountCluster(@, upsert, existing),
                                !.existingOpportunity =
                                    IF upsert THEN {opportunities[o] : o \in existing} ELSE @]
                   /\ IF upsert
                      THEN /\ opportunities' = upsertOpportunity(opportunities, id, opp)
                           /\ lastId' = IF existing = {}
                                        THEN [lastId EXCEPT !.opportunity = id] ELSE lastId
                      ELSE /\ opportunities' = BelowThreshold(opportunities, k)
                           /\ UNCHANGED lastId
    /\ UNCHANGED <<complaints, clusters, now>>
    /\ UNCHANGED <<workers, detectCall, genCall, embedCall, gaveUp, settings, scoreCall>>
    /\ UNCHANGED systemVars

\* toggleOpportunityBookmark(id) (POST /api/opportunities/:id/bookmark)
toggleOpportunityBookmark(o) ==
    /\ o \in DOMAIN opportunities
    /\ opportunities' = [opportunities EXCEPT
           ![o].isBookmarked = ~opportunities[o].isBookmarked]
    /\ UNCHANGED <<complaints, clusters, lastId, now>>
    /\ UNCHANGED stageVars
    /\ UNCHANGED systemVars

\* setSetting('min_score_threshold', value) (PUT /api/settings)
setSetting ==
    /\ \E v \in ThresholdSettings :
          /\ v # settings.min_score_threshold
          /\ settings' = [settings EXCEPT !.min_score_threshold = v]
    /\ UNCHANGED <<complaints, clusters, opportunities, lastId, now>>
    /\ UNCHANGED <<workers, detectCall, genCall, embedCall, gaveUp, scoring, scoreCall>>
    /\ UNCHANGED systemVars

\* The stages of a pipeline run follow one another: complaints are embedded
\* and clustered while no scoring stage is in progress.  The API calls come
\* at any time.  The complaints here come from one platform.
BetweenScoringRuns ==
    /\ scoring.pc = "idle"
    /\ \/ EmbedNewComplaintFrom(MaxComplaints, DistinctEmbeddings, {"ask"}, Texts)
       \/ \E c \in ComplaintIds : clusterComplaint(c)

NextScoring ==
    \/ BetweenScoringRuns
    \/ scoreAllClusters
    \/ scoreNextCluster
    \/ \E o \in ComplaintIds : toggleOpportunityBookmark(o)
    \/ setSetting

SpecScoring == Init /\ [][NextScoring]_vars


\* ------------------------------------------------------------------------
\* Properties of the orchestrator and the scheduler
\* ------------------------------------------------------------------------
Terminal == {"completed", "failed"}

StatusOf(r, i) == steps[r][Steps[i]].status

HasError(errs, e) == \E k \in 1..Len(errs) : errs[k] = e

RunInProgress(r) == pc[r] \in {"startJobRun", "racing", "updateJob"}

\* C1: when the health check passed and the timer did not fire, at the return
\* of runPipeline every step is completed or failed (none skipped or pending);
\* a failed step carries its error, the error is in the errors list, and all
\* later steps were still run to completed or failed.
C1_ContinuesAfterStageFailure ==
    \A r \in RunIds :
        (pc[r] = "returned" /\ dbHealthy[r] = "yes" /\ timer[r] # "fired") =>
            /\ \A i \in 1..NumSteps : StatusOf(r, i) \in Terminal
            /\ \A i \in 1..NumSteps :
                 (StatusOf(r, i) = "failed" \/
                  HasError(errors[r], [step |-> Steps[i], message |-> ThrownMessage])) =>
                    /\ StatusOf(r, i) = "failed"
                    /\ steps[r][Steps[i]].error = ThrownMessage
                    /\ HasError(errors[r], [step |-> Steps[i], message |-> ThrownMessage])
                    /\ \A j \in (i + 1)..NumSteps : StatusOf(r, j) \in Terminal

C1_Witness ==
    \E r \in RunIds :
        /\ pc[r] = "returned" /\ dbHealthy[r] = "yes" /\ timer[r] # "fired"
        /\ StatusOf(r, 2) = "failed"
        /\ \A j \in 3..NumSteps : StatusOf(r, j) = "completed"

\* C2: a step becomes running only when every earlier step of the run is
\* completed or failed and no later step has been started, and a run never
\* has two running steps.
C2_StagesInOrder ==
    /\ [](\A r \in RunIds : Cardinality({s \in StepSet : steps[r][s].status = "running"}) <= 1)
    /\ [][\A r \in RunIds : \A i \in 1..NumSteps :
            (steps[r][Steps[i]].status # "running" /\ steps'[r][Steps[i]].status = "running") =>
                /\ \A j \in 1..(i - 1) : steps'[r][Steps[j]].status \in Terminal
                /\ \A j \in (i + 1)..NumSteps : steps'[r][Steps[j]].status \in {"pending", "skipped"}]_vars

C2_Witness ==
    \E r \in RunIds :
        /\ StatusOf(r, NumSteps) = "running"
        /\ \A j \in 1..(NumSteps - 1) : StatusOf(r, j) \in Terminal
        /\ StatusOf(r, 3) = "failed"

\* C3: at most one runPipeline call of the scheduler is in progress at a time.
C3_AtMostOneRunInProgress ==
    Cardinality({r \in RunIds : RunInProgress(r)}) <= 1

\* C4 as claimed: once the timer has fired no step is pending, the result
\* status is 'timeout', and the job-run record of the returned run has status
\* 'timeout'.
C4_RunRecordedAsTimeout ==
    \A r \in RunIds :
        timer[r] = "fired" =>
            /\ \A s \in StepSet : steps[r][s].status # "pending"
            /\ resultStatus[r] = "timeout"
            /\ pc[r] = "returned" => jobRuns[r].status = "timeout"

\* C4 amended: when the timer fires every pending step becomes skipped and
\* the result status becomes 'timeout'; the job-run record of the returned
\* run has status 'failed'.
C4_TimeoutSkipsPending ==
    /\ [](\A r \in RunIds :
            timer[r] = "fired" =>
                /\ \A s \in StepSet : steps[r][s].status # "pending"
                /\ resultStatus[r] = "timeout"
                /\ pc[r] = "returned" => jobRuns[r].status = "failed")
    /\ [][\A r \in RunIds :
            (timer[r] = "armed" /\ timer'[r] = "fired") =>
                \A s \in StepSet :
                    steps[r][s].status = "pending" => steps'[r][s].status = "skipped"]_vars

C4_Witness ==
    \E r \in RunIds :
        /\ timer[r] = "fired" /\ pc[r] = "returned"
        /\ StatusOf(r, 1) = "completed"
        /\ StatusOf(r, NumSteps) = "skipped"

\* C5: once the controller of a run is aborted, no step of that run that is
\* not running becomes running.
C5_NoStepStartsAfterCancel ==
    [][\A r \in RunIds : \A s \in StepSet :
          aborted[r] => ~(steps[r][s].status # "running" /\ steps'[r][s].status = "running")]_vars

C7_ErrorsAttachedToRecord ==
    [][\A r \in RunIds :
          (jobRuns[r].status = "running" /\ jobRuns'[r].status \in Terminal) =>
              \A k \in 1..Len(errors[r]) : HasError(jobRuns'[r].errors, errors[r][k])]_vars

\* C8: a job-run record is inserted as 'running' and changes status only
\* once, from 'running' to 'completed' or 'failed'; when runPipeline has
\* returned the record is terminal, and 'completed' exactly when the result
\* status is 'completed'.
C8_JobRunLifecycle ==
    /\ [](\A r \in RunIds :
            pc[r] = "returned" =>
                /\ jobRuns[r].status \in Terminal
                /\ jobRuns[r].status = "completed" <=> resultStatus[r] = "completed")
    /\ [][\A r \in RunIds :
            jobRuns'[r].status # jobRuns[r].status =>
                \/ jobRuns[r].status = "none" /\ jobRuns'[r].status = "running"
                \/ jobRuns[r].status = "running" /\ jobRuns'[r].status \in Terminal]_vars

C8_Witness ==
    \E r \in RunIds :
        /\ pc[r] = "returned"
        /\ jobRuns[r].status = "failed"
        /\ resultStatus[r] = "timeout"

\* ------------------------------------------------------------------------
\* Properties of clustering and cleanup
\* ------------------------------------------------------------------------

\* the centroid of cluster k in table cl is, in every dimension, the mean of
\* the embeddings of the rows of tbl whose clusterId is k
CentroidIsMeanIn(cl, tbl, k) ==
    LET members == getComplaintsByCluster(tbl, k)
        centroid == cl[k].centroidEmbedding
    IN /\ members # {}
       /\ \A i \in Dimensions :
            centroid.num[i] * Cardinality(members)
                = centroid.den * SumOver([m \in members |-> tbl[m].embedding[i]], members)

\* C9: every assignment of a complaint by clusterComplaint leaves the
\* centroidEmbedding of the cluster it was assigned to equal, in every
\* dimension, to the mean of the embeddings of the cluster's current members.
C9_CentroidIsMean ==
    [][\A c \in DOMAIN complaints :
          (/\ complaints[c].clusterId = NoCluster
           /\ c \in DOMAIN complaints'
           /\ complaints'[c].clusterId # NoCluster) =>
              /\ complaints'[c].clusterId \in DOMAIN clusters'
              /\ CentroidIsMeanIn(clusters', complaints', complaints'[c].clusterId)]_vars

C9_Witness ==
    \E k \in DOMAIN clusters :
        /\ Cardinality(getComplaintsByCluster(complaints, k)) = 2
        /\ clusters[k].centroidEmbedding = [num |-> <<3, 1>>, den |-> 2]

\* C10: the complaintCount of every cluster is the number of complaints whose
\* clusterId references the cluster.
C10_CountEqualsMembers ==
    \A k \in DOMAIN clusters :
        clusters[k].complaintCount = Cardinality(getComplaintsByCluster(complaints, k))

\* C11: when no clustering operation is in progress, every cluster that two
\* or more complaints were assigned to (by operations that may have
\* overlapped) has complaintCount equal to the number of complaints that
\* reference it and a centroid equal to the mean of their embeddings.
C11_ConcurrentAssignmentsReflected ==
    (\A w \in WorkerIds : workers[w].pc = "idle") =>
        \A k \in DOMAIN clusters :
            Cardinality(getComplaintsByCluster(complaints, k)) >= 2 =>
                /\ clusters[k].complaintCount = Cardinality(getComplaintsByCluster(complaints, k))
                /\ CentroidIsMeanIn(clusters, complaints, k)

\* C12: a processBatch call made by the embedding stage (processComplaints)
\* never submits a complaint that was in an earlier batch whose embedding
\* generation failed after all retries.
C12_FailedItemsNotRetried ==
    embedCall.op = "processComplaints" => embedCall.retried = {}

\* C13: a processBatch call whose embedding generation fails writes
\* isComplaint = false to every complaint of its list that had no embedding,
\* leaves the embedding of those complaints null, returns for each of them
\* a result with success = false and the error message, and leaves every
\* complaint of the list that had an embedding (and every other row) as it
\* was.
C13_BatchFailureMarksNotComplaint ==
    [][(embedCall' # embedCall /\ ~embedCall'.ok) =>
        /\ \A c \in embedCall'.batch :
              IF complaints[c].embedding = NoEmbedding
              THEN /\ complaints'[c].isComplaint = FALSE
                   /\ complaints'[c].embedding = NoEmbedding
                   /\ embedCall'.results[c].success = FALSE
                   /\ embedCall'.results[c].error = EmbeddingError
              ELSE /\ complaints'[c] = complaints[c]
                   /\ embedCall'.results[c].success = TRUE
        /\ \A c \in DOMAIN complaints \ embedCall'.batch : complaints'[c] = complaints[c]
        /\ DOMAIN complaints' = DOMAIN complaints]_vars

C13_Witness ==
    /\ ~embedCall.ok
    /\ \E c \in embedCall.batch :
          /\ c \in embedCall.toEmbed
          /\ complaints[c].text # "plain"
          /\ ~complaints[c].isComplaint
          /\ complaints[c].embedding = NoEmbedding
    /\ \E c \in embedCall.batch :
          /\ c \notin embedCall.toEmbed
          /\ complaints[c].embedding # NoEmbedding
          /\ complaints[c].isComplaint

\* C19: the score calculateScore returns for factors with complaintCount >= 1,
\* daysActive >= 0, workaroundCount >= 0, platformCount >= 0 and a growth
\* percentage >= -100 is an integer from 0 to 100.
C19_ScoreWithinRange ==
    (/\ scoreCall.op = "calculateScore"
     /\ scoreCall.factors.complaintCount >= 1
     /\ scoreCall.factors.growthPercentage.num >= -100 * scoreCall.factors.growthPercentage.den)
        => scoreCall.score \in 0..100

\* C20: with the default weights the score is min(100, n) where n is the
\* integer nearest to complaintCount*2 + daysActive*1 + growthPercentage*0.5
\* + workaroundCount*5 + platformCount*3 (n - 1/2 <= sum < n + 1/2); it is
\* never above 100, and the factors (35, 0, 0, 0, 1) score 73.
C20_ScoreFormula ==
    /\ calculateScore([complaintCount |-> 35, daysActive |-> 0,
                       growthPercentage |-> [num |-> 0, den |-> 1],
                       workaroundCount |-> 0, platformCount |-> 1]) = 73
    /\ scoreCall.op = "calculateScore" =>
          LET f == scoreCall.factors
              den == f.growthPercentage.den
              \* twice the weighted sum, times den
              twice == 2 * den * (f.complaintCount * 2 + f.daysActive * 1
                                  + f.workaroundCount * 5 + f.platformCount * 3)
                          + f.growthPercentage.num
              n == scoreCall.score
          IN /\ n <= 100
             /\ n < 100 => ((2 * n - 1) * den <= twice /\ twice < (2 * n + 1) * den)
             /\ n = 100 => 199 * den <= twice

C20_Witness ==
    /\ scoreCall.op = "calculateScore"
    /\ scoreCall.score = 100
    /\ scoreCall.factors.complaintCount = 60
    /\ scoreCall.factors.growthPercentage.den = 3

\* ------------------------------------------------------------------------
\* Properties of the scoring stage
\* ------------------------------------------------------------------------

\* a step of the loop of scoreAllClusters (the only step that changes the
\* call in progress), and the cluster it scores
ScoringStep == scoring.pc = "running" /\ scoring' # scoring

ScoredNow == DOMAIN scoring.todo \ DOMAIN scoring'.todo

\* the score scoreCluster computes for fetched cluster row cluster of id k
ScoreOf(cluster, k) == calculateScore(scoringFactors(cluster, complaints, k, now))

\* the opportunity rows of cluster k in table tbl
OpportunitiesOf(tbl, k) == {o \in DOMAIN tbl : tbl[o].clusterId = k}

\* C14: no two opportunity rows reference the same cluster, and a step of a
\* scoring run on a cluster that has an opportunity row adds no row (the
\* row is updated in place).
C14_OneOpportunityPerCluster ==
    /\ [](\A k \in DOMAIN clusters : Cardinality(OpportunitiesOf(opportunities, k)) <= 1)
    /\ [][ScoringStep =>
            \A k \in ScoredNow :
                OpportunitiesOf(opportunities, k) # {} =>
                    /\ DOMAIN opportunities' = DOMAIN opportunities
                    /\ OpportunitiesOf(opportunities', k) = OpportunitiesOf(opportunities, k)]_vars

C14_Witness ==
    /\ scoring.pc = "running"
    /\ scoring.stats.opportunitiesUpdated >= 1
    /\ \E k \in scoring.scored :
          /\ Cardinality(OpportunitiesOf(opportunities, k)) = 1
          /\ \E o \in OpportunitiesOf(opportunities, k) :
                opportunities[o].score = ScoreOf(clusters[k], k)

\* C15: a step of a scoring run keeps every opportunity row, and changes
\* nothing in a row but score and representativeQuoteId (scoringFactors and
\* updatedAt are not in the model's rows); isBookmarked stays as it was.
C15_ScoringKeepsBookmark ==
    [][ScoringStep =>
        \A o \in DOMAIN opportunities :
            /\ o \in DOMAIN opportunities'
            /\ opportunities'[o].isBookmarked = opportunities[o].isBookmarked
            /\ [opportunities'[o] EXCEPT !.score = 0, !.representativeQuoteId = NoQuote]
                  = [opportunities[o] EXCEPT !.score = 0, !.representativeQuoteId = NoQuote]]_vars

C15_Witness ==
    /\ scoring.pc = "running"
    /\ scoring.stats.opportunitiesUpdated >= 1
    /\ \E row \in scoring.existingOpportunity :
          /\ row.isBookmarked
          /\ \E o \in OpportunitiesOf(opportunities, row.clusterId) :
                /\ opportunities[o].isBookmarked
                /\ opportunities[o].score = ScoreOf(clusters[row.clusterId], row.clusterId)

\* C16: a step of a scoring run on a cluster whose score is below the
\* threshold of the run leaves the opportunities table as it was; no step
\* removes an opportunity row whose cluster still exists; and the cleanup
\* query removes exactly the rows of the clusters that were deleted.
C16_BelowThresholdKeepsOpportunity ==
    /\ [][/\ ScoringStep =>
               \A k \in ScoredNow :
                   ScoreOf(scoring.todo[k], k) < scoring.threshold =>
                       opportunities' = opportunities
           /\ \A o \in DOMAIN opportunities :
                   opportunities[o].clusterId \in DOMAIN clusters' =>
                       /\ o \in DOMAIN opportunities'
                       /\ opportunities'[o].clusterId = opportunities[o].clusterId]_vars
    /\ [](\A kept \in SUBSET DOMAIN clusters :
              deleteOrphanedOpportunities(opportunities, [k \in kept |-> clusters[k]])
                  = [o \in {x \in DOMAIN opportunities : opportunities[x].clusterId \in kept}
                        |-> opportunities[o]])

C16_Witness ==
    /\ scoring.pc = "running"
    /\ scoring.stats.clustersBelowThreshold >= 1
    /\ \E k \in scoring.scored :
          /\ ScoreOf(clusters[k], k) < scoring.threshold
          /\ \E o \in OpportunitiesOf(opportunities, k) :
                opportunities[o].score = ScoreOf(clusters[k], k)

\* C17: a scoring run remembers the min_score_threshold setting of the
\* moment it starts; each of its steps creates or updates the opportunity
\* of the scored cluster (which then carries the new score) when the score
\* is >= the threshold (that setting, or 70 when it is not set), and writes
\* nothing to the cluster's opportunity when the score is below it.
C17_UpsertIffAtLeastThreshold ==
    [][/\ (scoring.pc = "idle" /\ scoring'.pc = "running") =>
              /\ scoring'.setting = settings.min_score_threshold
              /\ DOMAIN scoring'.todo = {k \in DOMAIN clusters : clusters[k].complaintCount >= 1}
       /\ ScoringStep =>
              /\ scoring'.pc = "running" => scoring'.setting = scoring.setting
              /\ \A k \in ScoredNow :
                    LET score == ScoreOf(scoring.todo[k], k)
                        threshold == IF scoring.setting = NoSetting THEN 70 ELSE scoring.setting
                    IN IF score >= threshold
                       THEN /\ OpportunitiesOf(opportunities', k) # {}
                            /\ \A o \in OpportunitiesOf(opportunities', k) :
                                  opportunities'[o].score = score
                       ELSE /\ OpportunitiesOf(opportunities', k) = OpportunitiesOf(opportunities, k)
                            /\ \A o \in OpportunitiesOf(opportunities, k) :
                                  opportunities'[o] = opportunities[o]]_vars

C17_Witness ==
    /\ scoring.pc = "running"
    /\ scoring.setting = 60
    /\ settings.min_score_threshold = 55
    /\ \E k \in scoring.scored :
          /\ ScoreOf(clusters[k], k) = 60
          /\ \E o \in OpportunitiesOf(opportunities, k) : opportunities[o].score = 60
    /\ \E k \in DOMAIN scoring.todo : ScoreOf(clusters[k], k) = 55

\* C18: when the min_score_threshold setting exists, the meetsThreshold
\* field scoreCluster returns for a cluster scored by a run is true exactly
\* when the score is >= the setting the run decides with.
C18_MeetsThresholdFollowsSetting ==
    [][ScoringStep =>
        \A k \in ScoredNow :
            scoring.setting # NoSetting =>
                (meetsThreshold(ScoreOf(scoring.todo[k], k))
                    <=> ScoreOf(scoring.todo[k], k) >= scoring.setting)]_vars

\* ------------------------------------------------------------------------
\* Properties of calculateGrowthPercentage
\* ------------------------------------------------------------------------

AboveThreshold(e) == {k \in DOMAIN clusters : SimilarEnough(e, clusters[k].centroidEmbedding)}

\* C22: a step that puts a complaint into a cluster puts it into a cluster
\* whose centroid was at least as similar to the complaint as every other
\* centroid above the threshold, and creates no cluster, when some centroid
\* was above the threshold; otherwise it creates exactly one cluster and
\* puts the complaint into it.
C22_MostSimilarCluster ==
    [][\A c \in DOMAIN complaints :
          (complaints[c].clusterId = NoCluster /\ complaints'[c].clusterId # NoCluster) =>
              LET e == complaints[c].embedding
                  k == complaints'[c].clusterId
              IN IF AboveThreshold(e) # {}
                 THEN /\ k \in AboveThreshold(e)
                      /\ \A j \in AboveThreshold(e) :
                            AtLeastAsSimilar(e, clusters[k].centroidEmbedding,
                                             clusters[j].centroidEmbedding)
                      /\ DOMAIN clusters' = DOMAIN clusters
                 ELSE /\ k \notin DOMAIN clusters
                      /\ DOMAIN clusters' = DOMAIN clusters \cup {k}]_vars

C22_Witness ==
    \E j \in DOMAIN clusters, k \in DOMAIN clusters, c \in DOMAIN complaints :
        /\ j < k
        /\ complaints[c].clusterId = k
        /\ complaints[c].embedding = <<2, 1>>
        /\ clusters[j].centroidEmbedding.num = <<1, 0>>
        /\ SimilarEnough(complaints[c].embedding, clusters[j].centroidEmbedding)
        /\ clusters[k].complaintCount = 2
        /\ \E b \in getComplaintsByCluster(complaints, k) : complaints[b].embedding = <<1, 1>>

\* C25: when all the complaints are pairwise similar above the threshold
\* and each has been clustered, there is exactly one cluster, every
\* complaint is in it and its complaintCount is their number.
C25_SimilarComplaintsShareOneCluster ==
    LET n == Cardinality(DOMAIN complaints)
    IN (/\ n >= 2
        /\ getUnclusteredComplaints = {}
        /\ \A a \in DOMAIN complaints, b \in DOMAIN complaints :
              SimilarEnough(complaints[a].embedding, [num |-> complaints[b].embedding, den |-> 1]))
       => /\ Cardinality(DOMAIN clusters) = 1
          /\ \A k \in DOMAIN clusters :
                /\ clusters[k].complaintCount = n
                /\ \A c \in DOMAIN complaints : complaints[c].clusterId = k

C25_Witness ==
    /\ Cardinality(DOMAIN complaints) >= 3
    /\ getUnclusteredComplaints = {}
    /\ Cardinality({complaints[c].embedding : c \in DOMAIN complaints}) = 2
    /\ \A a \in DOMAIN complaints, b \in DOMAIN complaints :
          SimilarEnough(complaints[a].embedding, [num |-> complaints[b].embedding, den |-> 1])
    /\ \E k \in DOMAIN clusters : clusters[k].complaintCount = Cardinality(DOMAIN complaints)

\* ------------------------------------------------------------------------
\* Properties of a new cluster
\* ------------------------------------------------------------------------

\* C23: a step that creates a cluster creates it for one complaint, with
\* complaintCount 1, the complaint's embedding as centroid, firstSeen and
\* lastSeen equal to the complaint's createdAt, platformDistribution
\* counting 1 for the complaint's category only, a non-empty summary, and
\* the complaint as its only member.
C23_NewClusterRow ==
    [][\A k \in DOMAIN clusters' \ DOMAIN clusters :
          \E c \in DOMAIN complaints :
              /\ complaints[c].clusterId = NoCluster
              /\ getComplaintsByCluster(complaints', k) = {c}
              /\ clusters'[k].complaintCount = 1
              /\ clusters'[k].centroidEmbedding.num = complaints[c].embedding
              /\ clusters'[k].centroidEmbedding.den = 1
              /\ clusters'[k].firstSeen = complaints[c].createdAt
              /\ clusters'[k].lastSeen = complaints[c].createdAt
              /\ \A g \in Categories :
                    clusters'[k].platformDistribution[g]
                        = (IF g = complaints[c].category THEN 1 ELSE 0)
              /\ clusters'[k].summary # ""]_vars

\* ------------------------------------------------------------------------
\* Properties of firstSeen and lastSeen
\* ------------------------------------------------------------------------

\* firstSeen and lastSeen of cluster k in table cl are the earliest and the
\* latest createdAt of its members in table tbl
SeenSpansMembers(cl, tbl, k) ==
    LET dates == {tbl[m].createdAt : m \in getComplaintsByCluster(tbl, k)}
    IN /\ cl[k].firstSeen = Min(dates)
       /\ cl[k].lastSeen = Max(dates)
       /\ cl[k].lastSeen >= cl[k].firstSeen

\* C24: a step that assigns a complaint to a cluster (a new one, or one whose
\* firstSeen and lastSeen were the earliest and latest createdAt of its
\* members) leaves the cluster with firstSeen the earliest and lastSeen the
\* latest createdAt of its members.
C24_SeenSpansMembers ==
    [][\A c \in DOMAIN complaints :
          (/\ complaints[c].clusterId = NoCluster
           /\ c \in DOMAIN complaints'
           /\ complaints'[c].clusterId # NoCluster
           /\ complaints'[c].clusterId \in DOMAIN clusters =>
                  /\ getComplaintsByCluster(complaints, complaints'[c].clusterId) # {}
                  /\ SeenSpansMembers(clusters, complaints, complaints'[c].clusterId))
          => SeenSpansMembers(clusters', complaints', complaints'[c].clusterId)]_vars

\* ------------------------------------------------------------------------
\* Properties of the detection batch
\* ------------------------------------------------------------------------

\* C29: no processNewComplaints call evaluates a row that an earlier call
\* evaluated, and the rows a call evaluates have no embedding.
C29_DetectedOnce ==
    /\ [](detectCall.again = {})
    /\ [][detectCall' # detectCall =>
            \A c \in detectCall'.rows : complaints[c].embedding = NoEmbedding]_vars

\* C30: a processNewComplaints call evaluates every row that has no
\* embedding when it starts.
C30_DetectsEveryUnembeddedRow ==
    [][detectCall' # detectCall => detectCall'.rows = unprocessedComplaints]_vars

\* ------------------------------------------------------------------------
\* Properties of the stages run again
\* ------------------------------------------------------------------------

\* every complaint has been evaluated, has an embedding and is in a cluster
FullyProcessed ==
    /\ DOMAIN complaints # {}
    /\ \A c \in DOMAIN complaints :
          /\ c \in detectCall.evaluated
          /\ complaints[c].embedding # NoEmbedding
          /\ complaints[c].clusterId # NoCluster

\* C26: when every complaint is fully processed, the detection, embedding
\* and clustering batches select no row, and a step that scrapes no new row
\* changes no complaint and no cluster.
C26_RerunIsNoOp ==
    /\ [](FullyProcessed =>
              /\ unprocessedComplaints = {}
              /\ complaintsToProcess = {}
              /\ getUnclusteredComplaints = {})
    /\ [][(FullyProcessed /\ DOMAIN complaints' = DOMAIN complaints) =>
              (complaints' = complaints /\ clusters' = clusters)]_vars

C26_Witness ==
    /\ FullyProcessed
    /\ Cardinality(DOMAIN complaints) >= 2
    /\ \E k \in DOMAIN clusters : clusters[k].complaintCount = 2

\* C27: no step changes or clears the embedding that a row it keeps has, and
\* a processBatch call asks the provider only for rows without embedding.
C27_EmbeddingImmutable ==
    [][/\ \A c \in DOMAIN complaints \cap DOMAIN complaints' :
             complaints[c].embedding # NoEmbedding =>
                 complaints'[c].embedding = complaints[c].embedding
       /\ embedCall' # embedCall =>
             \A c \in embedCall'.toEmbed : complaints[c].embedding = NoEmbedding]_vars

C27_Witness ==
    /\ embedCall.op = "processBatch"
    /\ embedCall.ok
    /\ embedCall.toEmbed # {}
    /\ \E c \in embedCall.batch \ embedCall.toEmbed :
          /\ c \in detectCall.evaluated
          /\ complaints[c].embedding # NoEmbedding
          /\ complaints[c].clusterId # NoCluster

\* C28: a generateEmbeddings call asks the provider at most maxRetries
\* times; when it returns, it returns the vectors of the call that succeeded,
\* the only one after the failed ones, and nothing of the call changes
\* afterwards; the wait after failed attempt i (0-based) is
\* retryBaseDelay * 2^i; when it throws, maxRetries calls have failed and the
\* error thrown carries the message of the last failure.
C28_RetriesWithBackoff ==
    /\ [](/\ genCall.calls <= maxRetries
          /\ \A i \in 1..Len(genCall.delays) :
                genCall.delays[i] = retryBaseDelay * 2^(i - 1)
          /\ genCall.pc = "calling" =>
                /\ genCall.calls = Len(genCall.failures) + 1
                /\ Len(genCall.delays) = Len(genCall.failures)
          /\ genCall.pc = "sleeping" =>
                /\ genCall.calls = Len(genCall.failures)
                /\ Len(genCall.delays) = Len(genCall.failures)
          /\ genCall.pc = "returned" =>
                /\ genCall.calls = Len(genCall.failures) + 1
                /\ Len(genCall.delays) = Len(genCall.failures)
                /\ Len(genCall.result) = genCall.texts
                /\ \A i \in 1..genCall.texts :
                      genCall.result[i] = genCall.response[i].embedding
          /\ genCall.pc = "thrown" =>
                /\ genCall.calls = maxRetries
                /\ Len(genCall.failures) = maxRetries
                /\ Len(genCall.delays) = maxRetries - 1
                /\ genCall.lastError.name = "Error"
                /\ genCall.lastError.message = genCall.failures[maxRetries].value)
    /\ [][(genCall.pc \in {"returned", "thrown"} /\ genCall' # genCall) =>
              (genCall'.pc = "calling" /\ genCall'.calls = 1
                  /\ genCall'.failures = <<>>)]_vars

C28_Witness ==
    /\ genCall.pc = "thrown"
    /\ genCall.delays = <<1000, 2000>>
    /\ genCall.failures[2] # genCall.failures[3]
    /\ ~genCall.failures[3].isError

\* ------------------------------------------------------------------------
\* Properties of detectComplaint
\* ------------------------------------------------------------------------

\* C31: detectComplaint returns isComplaint = true exactly when some pattern
\* of some category matched, and isComplaint = false with confidence 0 when
\* none matched.
C31_ComplaintIffMatch ==
    scoreCall.op = "detectComplaint" =>
        LET r == scoreCall.result
            some == \E g \in DOMAIN r.matchedPatterns : r.matchedPatterns[g] > 0
        IN /\ r.isComplaint <=> some
           /\ ~some => (~r.isComplaint /\ r.confidence = 0)

C31_Witness ==
    /\ scoreCall.op = "detectComplaint"
    /\ scoreCall.result.matchedPatterns = [frustration |-> 0, failure |-> 0, problem |-> 1]
    /\ scoreCall.result.isComplaint

\* C32: the confidence is min(100, totalMatches*15 + categoriesHit*20), lies
\* in 0..100, and is at least the confidence that results from no more
\* matches in no more categories.
C32_ConfidenceFormula ==
    scoreCall.op = "detectComplaint" =>
        LET r == scoreCall.result
            m == r.matchedPatterns
            totalMatches == m.frustration + m.failure + m.problem
            categoriesHit == Cardinality({g \in DOMAIN m : m[g] > 0})
            raw == totalMatches * 15 + categoriesHit * 20
        IN /\ r.confidence = (IF raw < 100 THEN raw ELSE 100)
           /\ r.confidence \in 0..100
           /\ \A t \in 0..totalMatches, h \in 0..categoriesHit :
                 Confidence(t, h) <= r.confidence

C32_Witness ==
    /\ scoreCall.op = "detectComplaint"
    /\ scoreCall.result.matchedPatterns = PatternCounts
    /\ scoreCall.result.confidence = 100

\* ------------------------------------------------------------------------
\* Properties of persistItems
\* ------------------------------------------------------------------------

\* C33: no two rows have the same origin id; after persistItems every origin
\* id it was given has exactly one row, and newCount + skipCount is the
\* number of items given, newCount being the number of rows added.
C33_OneRowPerSource ==
    /\ [](\A c, d \in DOMAIN complaints :
              complaints[c].sourceId = complaints[d].sourceId => c = d)
    /\ [][scoreCall'.op = "persistItems" =>
            /\ \A i \in DOMAIN scoreCall'.items :
                  Cardinality(getComplaintBySource(complaints', scoreCall'.items[i])) = 1
            /\ scoreCall'.newCount + scoreCall'.skipCount = Len(scoreCall'.items)
            /\ scoreCall'.newCount =
                  Cardinality(DOMAIN complaints') - Cardinality(DOMAIN complaints)]_vars

C33_Witness ==
    /\ scoreCall.op = "persistItems"
    /\ scoreCall.items = <<"hn_story_1", "hn_comment_2", "hn_story_1">>
    /\ scoreCall.newCount = 1
    /\ scoreCall.skipCount = 2

\* ------------------------------------------------------------------------
\* Properties of processUnclustered
\* ------------------------------------------------------------------------

\* C34: a pass of processUnclustered in which clusterComplaint throws records
\* an error with the id of that pass's complaint and the loop goes on to the
\* next complaint; after every pass totalProcessed + errors.length is the
\* number of passes made, which is the number of fetched complaints at the
\* end, and totalProcessed = assignedToExisting + newClustersCreated.
C34_BatchSurvivesErrors ==
    /\ [](scoreCall.op = "processUnclustered" =>
            LET stats == scoreCall.stats
            IN /\ stats.totalProcessed + Len(stats.errors) = scoreCall.done
               /\ stats.totalProcessed = stats.assignedToExisting + stats.newClustersCreated
               /\ \A i \in 1..Len(stats.errors) :
                     \E j \in 1..scoreCall.done :
                        stats.errors[i].complaintId = scoreCall.unclustered[j]
               /\ scoreCall.done = Len(scoreCall.unclustered) =>
                     \A j \in 1..scoreCall.done :
                        \/ complaints[scoreCall.unclustered[j]].clusterId # NoCluster
                        \/ \E i \in 1..Len(stats.errors) :
                              stats.errors[i].complaintId = scoreCall.unclustered[j])
    /\ [][(scoreCall.op = "processUnclustered" /\ scoreCall'.op = "processUnclustered"
              /\ Len(scoreCall'.stats.errors) > Len(scoreCall.stats.errors)) =>
                /\ scoreCall'.done = scoreCall.done + 1
                /\ scoreCall'.unclustered = scoreCall.unclustered
                /\ scoreCall'.stats.errors[Len(scoreCall'.stats.errors)].complaintId
                       = scoreCall.unclustered[scoreCall.done + 1]]_vars

C34_Witness ==
    /\ scoreCall.op = "processUnclustered"
    /\ scoreCall.done = 2
    /\ Len(scoreCall.unclustered) = 2
    /\ Len(scoreCall.stats.errors) = 1
    /\ scoreCall.stats.errors[1].complaintId = scoreCall.unclustered[1]
    /\ scoreCall.stats.totalProcessed = 1
    /\ complaints[scoreCall.unclustered[2]].clusterId # NoCluster

\* ------------------------------------------------------------------------
\* Properties of the summary fallback
\* ------------------------------------------------------------------------

\* C35: when the provider fails, generateClusterSummary returns the summary
\* built from the most frequent keywords of the texts it sampled for the
\* provider, or the generic sentence when those texts have no keyword.
C35_FallbackFromSampledTexts ==
    (scoreCall.op = "generateClusterSummary" /\ scoreCall.response = ProviderFailure) =>
        /\ scoreCall.summary = generateFallbackSummary(scoreCall.sampleTexts)
        /\ countedWords(scoreCall.sampleTexts) = <<>> =>
              scoreCall.summary = "Multiple users report issues with this functionality."

\* ------------------------------------------------------------------------
\* Properties of the cleanup
\* ------------------------------------------------------------------------

\* C36: after a cleanup run that deleted complaints (none of its three
\* deletions failed), every cluster that remains has a member complaint.
C36_NoEmptyClusterAfterCleanup ==
    [][(DOMAIN complaints' # DOMAIN complaints /\ DOMAIN complaints' \subseteq DOMAIN complaints) =>
          \A k \in DOMAIN clusters' : getComplaintsByCluster(complaints', k) # {}]_vars

\* ------------------------------------------------------------------------
\* Properties of a run after its end
\* ------------------------------------------------------------------------

\* C37: once runPipeline has returned its result, no step of that run
\* changes status and the function given to runWithTimeout makes no further
\* progress.
C37_NoStageWorkAfterReturn ==
    [][\A r \in RunIds :
          pc[r] = "returned" => (steps'[r] = steps[r] /\ fnpc'[r] = fnpc[r])]_vars

\* C38: a trigger whose executePipeline reads isJobRunning while no
\* runPipeline call is in progress (and an orchestrator can still be created)
\* starts a run; the record of a run that has ended is not 'running'.
C38_TriggerStartsRunWhenIdle ==
    /\ [](\A r \in RunIds : pc[r] \in {"returned", "threw"} => jobRuns[r].status # "running")
    /\ [][\A t \in Triggers :
            (/\ tpc[t] = "dbcheck" /\ tpc'[t] # "dbcheck"
             /\ \A r \in RunIds : ~RunInProgress(r)
             /\ \E r \in RunIds : pc[r] = "idle") => tpc'[t] = "awaitRun"]_vars

\* C39: when runPipeline has returned with result status 'completed' and the
\* record 'completed', each of the six steps is 'completed'.
C39_CompletedMeansAllStepsCompleted ==
    \A r \in RunIds :
        (pc[r] = "returned" /\ resultStatus[r] = "completed"
            /\ jobRuns[r].status = "completed") =>
                \A s \in StepSet : steps[r][s].status = "completed"

\* ------------------------------------------------------------------------
\* Properties of the rows that reach the provider and the clusters
\* ------------------------------------------------------------------------

\* C40: every complaint in a cluster has an embedding and is flagged as a
\* complaint; the rows whose texts a processBatch call sends to the provider
\* and the rows a step assigns to a cluster are flagged as complaints.
C40_OnlyFlaggedRowsEmbeddedAndClustered ==
    /\ [](\A c \in DOMAIN complaints :
            complaints[c].clusterId # NoCluster =>
                (complaints[c].embedding # NoEmbedding /\ complaints[c].isComplaint))
    /\ [][/\ embedCall' # embedCall =>
                \A c \in embedCall'.toEmbed : complaints[c].isComplaint
          /\ \A c \in DOMAIN complaints :
                (complaints[c].clusterId = NoCluster /\ complaints'[c].clusterId # NoCluster) =>
                    complaints[c].isComplaint]_vars

C40_Witness ==
    /\ gaveUp # {}
    /\ \E c \in DOMAIN complaints : complaints[c].clusterId # NoCluster
    /\ \E c \in DOMAIN complaints :
          /\ complaints[c].text = "plain"
          /\ c \in detectCall.evaluated
          /\ ~complaints[c].isComplaint
          /\ complaints[c].embedding = NoEmbedding

====
